---- MODULE Spec2Model ----
(***************************************************************************)
(* Model of the retrieval core (src/vectorizer.py) and of the heuristic    *)
(* document-type scorer (src/rag_llm_pipeline.py).                         *)
(*                                                                         *)
(* A text is a sequence of one-character strings.  Numbers that are floats *)
(* in the source are kept exact: a term frequency is a fraction, an IDF is *)
(* a fixed-point logarithm (LnTable), and a cosine similarity is the pair  *)
(* (sign, sq): its sign and its square.                                    *)
(***************************************************************************)
EXTENDS Integers, Sequences, FiniteSets, TLC

VARIABLES pc, args, locals, ret, exc, self

vars == <<pc, args, locals, ret, exc, self>>

\* the RAGLLMPipeline object after __init__: an empty document-type cache
NoSelf == [_doc_type_cache |-> <<>>]

(***************************************************************************)
(* Bounds of the model.                                                    *)
(***************************************************************************)
MaxRuleTokens == 3      \* tokens per generated rule text
MaxK == 4               \* largest k asked for
RuleChunkSize == 2      \* window of get_top_k_rules (400 in the source), scaled down
MaxChunkSize == 3       \* largest chunk_size handed to chunk_text
MaxTextLen == 6         \* characters per text handed to chunk_text
MaxTfTokens == 4        \* tokens per list handed to get_tf
MaxVecTokens == 2       \* tokens per list a TF-IDF vector is made from
MaxDocLines == 2         \* lines per document handed to the scorer
MaxTailLines == 1        \* lines after line 2 of a bill-of-lading document

RuleCounts == 0..2      \* number of rule texts of a corpus

IdfDocCounts == 1..3    \* number of token lists an IDF map is computed from

(***************************************************************************)
(* Generic helpers.                                                        *)
(***************************************************************************)
Range(s) == {s[i] : i \in DOMAIN s}

Min(a, b) == IF a < b THEN a ELSE b

Max(a, b) == IF a > b THEN a ELSE b

SeqsUpTo(S, n) == UNION {[1..m -> S] : m \in 0..n}

RECURSIVE SumOver(_, _)
\* sum of f[x] over the finite set S
SumOver(S, f) ==
  IF S = {} THEN 0
  ELSE LET x == CHOOSE y \in S : TRUE IN f[x] + SumOver(S \ {x}, f)

(***************************************************************************)
(* Characters.  str.lower maps "A" to "a" and "B" to "b"; \w holds of the  *)
(* letters, \s of the blank and the newline; "." is punctuation.           *)
(***************************************************************************)
Letters == {"a", "b", "A", "B"}

Blanks == {" ", "\n"}

Alphabet == Letters \cup Blanks \cup {"."}

lower(c) == CASE c = "A" -> "a" [] c = "B" -> "b" [] OTHER -> c

IsWordChar(c) == c \in Letters

IsSpaceChar(c) == c \in Blanks

(***************************************************************************)
(* preprocess: lower-case, drop what is neither \w nor \s, split on runs   *)
(* of whitespace.                                                          *)
(***************************************************************************)
str_lower(text) == [i \in DOMAIN text |-> lower(text[i])]

re_sub_nonword(text) == SelectSeq(text, LAMBDA c : IsWordChar(c) \/ IsSpaceChar(c))

RECURSIVE SplitFrom(_, _, _, _)
\* str.split(): scan text from position i; cur is the word being read
SplitFrom(text, i, cur, acc) ==
  IF i > Len(text)
  THEN IF cur = <<>> THEN acc ELSE Append(acc, cur)
  ELSE IF IsSpaceChar(text[i])
       THEN SplitFrom(text, i + 1, <<>>, IF cur = <<>> THEN acc ELSE Append(acc, cur))
       ELSE SplitFrom(text, i + 1, Append(cur, text[i]), acc)

str_split(text) == SplitFrom(text, 1, <<>>, <<>>)

preprocess(text) == str_split(re_sub_nonword(str_lower(text)))

RECURSIVE str_join_no_blank(_)
\* variant: "".join(tokens), the tokens run together
str_join_no_blank(tokens) ==
  IF tokens = <<>> THEN <<>>
  ELSE tokens[1] \o str_join_no_blank(Tail(tokens))

RECURSIVE str_join(_)
\* " ".join(tokens)
str_join(tokens) ==
  IF tokens = <<>> THEN <<>>
  ELSE IF Len(tokens) = 1 THEN tokens[1]
  ELSE tokens[1] \o <<" ">> \o str_join(Tail(tokens))

(***************************************************************************)
(* chunk_text: windows tokens[i:i+chunk_size] for i in range(0, len,       *)
(* chunk_size), each joined with single blanks.                            *)
(***************************************************************************)
RangeStarts(n, step) == {i \in 0..(n - 1) : i % step = 0}

\* variant: the window runs one token into the next one
PySliceOverlap(s, from, to) == SubSeq(s, from + 1, Min(to + 1, Len(s)))

PySlice(s, from, to) == SubSeq(s, from + 1, Min(to, Len(s)))

chunk_text(text, chunk_size) ==
  LET tokens == preprocess(text)
      starts == RangeStarts(Len(tokens), chunk_size)
  IN  [j \in 1..Cardinality(starts) |->
         str_join(PySlice(tokens, (j - 1) * chunk_size, j * chunk_size))]

(***************************************************************************)
(* Exact arithmetic standing for the source's floats.  A fraction is kept  *)
(* in lowest terms with a positive denominator.                            *)
(***************************************************************************)
Abs(n) == IF n < 0 THEN -n ELSE n

Sign(n) == IF n < 0 THEN -1 ELSE IF n = 0 THEN 0 ELSE 1

RECURSIVE Gcd(_, _)
Gcd(a, b) == IF b = 0 THEN a ELSE Gcd(b, a % b)

Frac(n, d) ==
  LET g == Gcd(Abs(n), d) IN [num |-> n \div g, den |-> d \div g]

FracZero == [num |-> 0, den |-> 1]

FracAdd(x, y) == Frac(x.num * y.den + y.num * x.den, x.den * y.den)

FracMul(x, y) ==
  LET a == Frac(x.num, y.den)
      b == Frac(y.num, x.den)
  IN  [num |-> a.num * b.num, den |-> a.den * b.den]

\* x / y for y > 0
FracDiv(x, y) == FracMul(x, [num |-> y.den, den |-> y.num])

RECURSIVE NatFracLess(_, _, _, _)
\* p/q < r/s for p, r >= 0 and q, s > 0, by continued fractions (no products)
NatFracLess(p, q, r, s) ==
  IF p \div q # r \div s THEN p \div q < r \div s
  ELSE IF p % q = 0 THEN r % s > 0
  ELSE IF r % s = 0 THEN FALSE
  ELSE NatFracLess(s, r % s, q, p % q)

RECURSIVE FracSum(_, _)
\* sum of the fractions f[x] over the finite set S
FracSum(S, f) ==
  IF S = {} THEN FracZero
  ELSE LET x == CHOOSE y \in S : TRUE IN FracAdd(f[x], FracSum(S \ {x}, f))

(***************************************************************************)
(* math.log of the ratio n / d, in hundredths: LnTable[n] is 100 * ln(n)    *)
(* rounded; the sign of the result is the sign of n - d.                   *)
(***************************************************************************)
LnTable == <<0, 69, 110, 139, 161, 179, 195, 208, 220, 230, 240, 248>>

math_log(n, d) == LnTable[n] - LnTable[d]

(***************************************************************************)
(* get_tf: Counter(tokens), each count divided by len(tokens).             *)
(***************************************************************************)
Counter(tokens) ==
  [t \in Range(tokens) |-> Cardinality({i \in DOMAIN tokens : tokens[i] = t})]

\* variant: the division by len(tokens) runs before the loop over the keys
get_tf_raises_eager(tokens) == Len(tokens) = 0

\* the division tf[i] / len(tokens) runs once per key of the counter
get_tf_raises(tokens) == \E t \in DOMAIN Counter(tokens) : Len(tokens) = 0

\* variant: the counts are divided by the number of distinct tokens
get_tf_by_keys(tokens) ==
  LET tf == Counter(tokens)
  IN  [t \in DOMAIN tf |-> Frac(tf[t], Cardinality(DOMAIN tf))]

get_tf(tokens) ==
  LET tf == Counter(tokens)
  IN  [t \in DOMAIN tf |-> Frac(tf[t], Len(tokens))]

(***************************************************************************)
(* get_idf: idf[token] = log(num_documents / (1 + num_documents_with_token)) *)
(***************************************************************************)
\* variant: log(num_documents / num_documents_with_token), without the "1 +"
get_idf_unsmoothed(documents) ==
  LET num_documents == Len(documents)
      all_tokens == UNION {Range(documents[i]) : i \in DOMAIN documents}
      num_documents_with_token(token) ==
        Cardinality({i \in DOMAIN documents : token \in Range(documents[i])})
  IN  [token \in all_tokens |->
         math_log(num_documents, num_documents_with_token(token))]

get_idf(documents) ==
  LET num_documents == Len(documents)
      all_tokens == UNION {Range(documents[i]) : i \in DOMAIN documents}
      num_documents_with_token(token) ==
        Cardinality({i \in DOMAIN documents : token \in Range(documents[i])})
  IN  [token \in all_tokens |->
         math_log(num_documents, 1 + num_documents_with_token(token))]

\* dict.get(key, 0)
dict_get(d, key) == IF key \in DOMAIN d THEN d[key] ELSE 0

(***************************************************************************)
(* get_tfidf_vector: tf.get(token, 0) * idf.get(token, 0) per token.       *)
(***************************************************************************)
get_tfidf_vector(tokens, idf) ==
  LET tf == get_tf(tokens)
  IN  [token \in Range(tokens) |->
         Frac(tf[token].num * dict_get(idf, token), tf[token].den)]

(***************************************************************************)
(* get_cosine_similarity.  The value numerator / (sqrt(sum1) * sqrt(sum2)) *)
(* is kept as its sign and its square; 0.0 when the denominator is zero.   *)
(***************************************************************************)
SimZero == [sign |-> 0, sq |-> FracZero]

\* sum([vec[x] ** 2 for x in list(vec.keys())])
sum_of_squares(vec) == FracSum(DOMAIN vec, [x \in DOMAIN vec |-> FracMul(vec[x], vec[x])])

\* variant: only the first vector's magnitude is tested
not_denominator_first(sum1, sum2) == sum1.num = 0

\* "not denominator": sqrt(sum1) * sqrt(sum2) is zero
not_denominator(sum1, sum2) == sum1.num = 0 \/ sum2.num = 0

\* the division float(numerator) / denominator is reached with a zero denominator
get_cosine_similarity_raises(vec1, vec2) ==
  LET sum1 == sum_of_squares(vec1)
      sum2 == sum_of_squares(vec2)
  IN  ~not_denominator(sum1, sum2) /\ (sum1.num = 0 \/ sum2.num = 0)

\* variant: the denominator is sum1 * sum2, the square roots are left out
get_cosine_similarity_no_sqrt(vec1, vec2) ==
  LET intersection == DOMAIN vec1 \cap DOMAIN vec2
      numerator == FracSum(intersection,
                           [x \in intersection |-> FracMul(vec1[x], vec2[x])])
      sum1 == sum_of_squares(vec1)
      sum2 == sum_of_squares(vec2)
      ratio == FracDiv(FracDiv(numerator, sum1), sum2)
  IN  IF not_denominator(sum1, sum2) THEN SimZero
      ELSE [sign |-> Sign(numerator.num), sq |-> FracMul(ratio, ratio)]

\* variant: the second vector enters the dot product by the magnitude of its
\* weights
get_cosine_similarity_abs_weight(vec1, vec2) ==
  LET intersection == DOMAIN vec1 \cap DOMAIN vec2
      numerator == FracSum(intersection,
                           [x \in intersection |->
                              FracMul(vec1[x], Frac(Abs(vec2[x].num), vec2[x].den))])
      sum1 == sum_of_squares(vec1)
      sum2 == sum_of_squares(vec2)
  IN  IF not_denominator(sum1, sum2) \/ sum1.num = 0 \/ sum2.num = 0 THEN SimZero
      ELSE [sign |-> Sign(numerator.num),
            sq |-> FracMul(FracDiv(numerator, sum1), FracDiv(numerator, sum2))]

\* the value is returned only when nothing is raised (get_cosine_similarity_raises)
get_cosine_similarity(vec1, vec2) ==
  LET intersection == DOMAIN vec1 \cap DOMAIN vec2
      numerator == FracSum(intersection,
                           [x \in intersection |-> FracMul(vec1[x], vec2[x])])
      sum1 == sum_of_squares(vec1)
      sum2 == sum_of_squares(vec2)
  IN  IF not_denominator(sum1, sum2) \/ sum1.num = 0 \/ sum2.num = 0 THEN SimZero
      ELSE [sign |-> Sign(numerator.num),
            sq |-> FracMul(FracDiv(numerator, sum1), FracDiv(numerator, sum2))]

\* a < b as numbers
SimLess(a, b) ==
  IF a.sign # b.sign THEN a.sign < b.sign
  ELSE IF a.sign = 0 THEN FALSE
  ELSE IF a.sign = 1 THEN NatFracLess(a.sq.num, a.sq.den, b.sq.num, b.sq.den)
  ELSE NatFracLess(b.sq.num, b.sq.den, a.sq.num, a.sq.den)

(***************************************************************************)
(* heapq.nlargest(k, iterable, key): the first k of sorted(iterable,       *)
(* key=key, reverse=True); the sort is stable, so among equal keys the     *)
(* earlier element comes first.                                            *)
(***************************************************************************)
RECURSIVE InsertByKeyDesc(_, _)
\* x goes behind every element whose key is not below its own
InsertByKeyDesc(sorted, x) ==
  IF sorted = <<>> THEN <<x>>
  ELSE IF SimLess(Head(sorted).sim, x.sim) THEN <<x>> \o sorted
  ELSE <<Head(sorted)>> \o InsertByKeyDesc(Tail(sorted), x)

RECURSIVE InsertByKeyDescLate(_, _)
\* variant: x goes before the elements of equal key
InsertByKeyDescLate(sorted, x) ==
  IF sorted = <<>> THEN <<x>>
  ELSE IF ~SimLess(x.sim, Head(sorted).sim) THEN <<x>> \o sorted
  ELSE <<Head(sorted)>> \o InsertByKeyDescLate(Tail(sorted), x)

RECURSIVE SortedByKeyDesc(_, _)
SortedByKeyDesc(items, n) ==
  IF n = 0 THEN <<>> ELSE InsertByKeyDesc(SortedByKeyDesc(items, n - 1), items[n])

RECURSIVE SortedByKeyDescLate(_, _)
SortedByKeyDescLate(items, n) ==
  IF n = 0 THEN <<>> ELSE InsertByKeyDescLate(SortedByKeyDescLate(items, n - 1), items[n])

\* variant: heapq.nsmallest, the k elements of least key
heapq_nsmallest(k, items) ==
  LET sorted == SortedByKeyDesc(items, Len(items))
      n == Len(sorted)
  IN  [j \in 1..Min(Max(k, 0), n) |-> sorted[n + 1 - j]]

heapq_nlargest_late(k, items) ==
  SubSeq(SortedByKeyDescLate(items, Len(items)), 1, Min(Max(k, 0), Len(items)))

heapq_nlargest(k, items) ==
  SubSeq(SortedByKeyDesc(items, Len(items)), 1, Min(Max(k, 0), Len(items)))

(***************************************************************************)
(* top.sort(key=lambda x: (-x[0], x[1])): similarity descending, then      *)
(* index ascending.                                                        *)
(***************************************************************************)
\* variant: key=lambda x: (-x[0], -x[1]), the later index first among ties
SortKeyLessLaterFirst(x, y) ==
  \/ SimLess(y.sim, x.sim)
  \/ x.sim = y.sim /\ x.idx > y.idx

SortKeyLess(x, y) ==
  \/ SimLess(y.sim, x.sim)
  \/ x.sim = y.sim /\ x.idx < y.idx

RECURSIVE InsertBySortKey(_, _)
InsertBySortKey(sorted, x) ==
  IF sorted = <<>> THEN <<x>>
  ELSE IF SortKeyLess(x, Head(sorted)) THEN <<x>> \o sorted
  ELSE <<Head(sorted)>> \o InsertBySortKey(Tail(sorted), x)

RECURSIVE list_sort(_, _)
list_sort(items, n) ==
  IF n = 0 THEN <<>> ELSE InsertBySortKey(list_sort(items, n - 1), items[n])

(***************************************************************************)
(* get_top_k_rules.  The result is the record of the returned list, the    *)
(* exception raised ("none" when the call returns) and the locals.         *)
(***************************************************************************)
NoLocals ==
  [all_chunks |-> <<>>, processed_chunks |-> <<>>, processed_doc |-> <<>>,
   idf |-> <<>>, similarity_with_index |-> <<>>, top |-> <<>>,
   top_k_filenames |-> <<>>]

\* variant: the guard hands the document back
early_return_doc(doc_text) ==
  [ret |-> <<doc_text>>, exc |-> "none", locals |-> NoLocals]

\* "return []" of the guard "if not rule_texts"
early_return(doc_text) ==
  [ret |-> <<>>, exc |-> "none", locals |-> NoLocals]

RECURSIVE AllChunksByChunkIndex(_, _, _)
\* variant: a chunk is tagged with the filename at its position among the
\* chunks of its rule text, not at the position of the rule text
AllChunksByChunkIndex(rule_texts, rule_filenames, i) ==
  IF i > Len(rule_texts) THEN <<>>
  ELSE LET chunks == chunk_text(rule_texts[i], RuleChunkSize)
       IN  [j \in DOMAIN chunks |->
              [chunk |-> chunks[j],
               filename |-> IF j \in DOMAIN rule_filenames
                            THEN rule_filenames[j] ELSE "IndexError"]]
           \o AllChunksByChunkIndex(rule_texts, rule_filenames, i + 1)

RECURSIVE AllChunks(_, _, _)
\* the loop over enumerate(rule_texts), from rule i on
AllChunks(rule_texts, rule_filenames, i) ==
  IF i > Len(rule_texts) THEN <<>>
  ELSE LET chunks == chunk_text(rule_texts[i], RuleChunkSize)
       IN  [j \in DOMAIN chunks |->
              [chunk |-> chunks[j],
               filename |-> IF i \in DOMAIN rule_filenames
                            THEN rule_filenames[i] ELSE "IndexError"]]
           \o AllChunks(rule_texts, rule_filenames, i + 1)

get_top_k_rules(doc_text, rule_texts, rule_filenames, k) ==
  IF rule_texts = <<>> THEN early_return(doc_text)
  ELSE
  LET all_chunks == AllChunks(rule_texts, rule_filenames, 1)
      processed_chunks == [i \in DOMAIN all_chunks |-> preprocess(all_chunks[i].chunk)]
      processed_doc == preprocess(doc_text)
      idf == get_idf(Append(processed_chunks, processed_doc))
      doc_vec == get_tfidf_vector(processed_doc, idf)
      similarity_with_index ==
        [i \in DOMAIN processed_chunks |->
           [sim |-> get_cosine_similarity(
                      doc_vec, get_tfidf_vector(processed_chunks[i], idf)),
            idx |-> i - 1]]
      nlargest == heapq_nlargest(k, similarity_with_index)
      top == list_sort(nlargest, Len(nlargest))
      top_indices == [j \in DOMAIN top |-> top[j].idx]
      top_k_rules == [j \in DOMAIN top |-> all_chunks[top_indices[j] + 1].chunk]
      top_k_filenames == [j \in DOMAIN top |-> all_chunks[top_indices[j] + 1].filename]
      exception ==
        IF \E i \in DOMAIN all_chunks : all_chunks[i].filename = "IndexError"
        THEN "IndexError"
        ELSE IF \/ get_tf_raises(processed_doc)
                \/ \E i \in DOMAIN processed_chunks : get_tf_raises(processed_chunks[i])
                \/ \E i \in DOMAIN processed_chunks :
                     get_cosine_similarity_raises(
                       doc_vec, get_tfidf_vector(processed_chunks[i], idf))
        THEN "ZeroDivisionError"
        ELSE "none"
  IN  IF exception # "none"
      THEN [ret |-> <<>>, exc |-> exception, locals |-> NoLocals]
      ELSE [ret |-> top_k_rules, exc |-> "none",
            locals |-> [all_chunks |-> all_chunks,
                        processed_chunks |-> processed_chunks,
                        processed_doc |-> processed_doc,
                        idf |-> idf,
                        similarity_with_index |-> similarity_with_index,
                        top |-> top,
                        top_k_filenames |-> top_k_filenames]]

(***************************************************************************)
(* Inputs of get_top_k_rules: every rule text of up to MaxRuleTokens words  *)
(* "a" and "b", two texts with capitals, punctuation and blank runs, and   *)
(* query documents with none, one and two distinct words.                  *)
(***************************************************************************)
Words == {<<"a">>, <<"b">>}

OddTexts == {<<".", "\n">>, <<"B", ".", " ", " ", "a", "\n">>}

RuleTextSet == {str_join(t) : t \in SeqsUpTo(Words, MaxRuleTokens)} \cup OddTexts

DocTextSet ==
  {<<>>, <<" ", "\n">>, <<"a">>, <<"a", " ", "b">>, <<"b", " ", "a", " ", "b">>} \cup OddTexts

Filenames == <<"f1.txt", "f2.txt", "f3.txt">>

TopKArgs ==
  {[op |-> "get_top_k_rules", doc_text |-> d, rule_texts |-> r,
    rule_filenames |-> SubSeq(Filenames, 1, Len(r)), k |-> k] :
     d \in DocTextSet,
     r \in UNION {[1..m -> RuleTextSet] : m \in RuleCounts},
     k \in 0..MaxK}

NoArgs == [op |-> "none"]

Init ==
  /\ pc = "call"
  /\ args \in TopKArgs
  /\ locals = NoLocals
  /\ ret = <<>>
  /\ exc = "none"
  /\ self = NoSelf

CallTopK ==
  /\ pc = "call"
  /\ args.op = "get_top_k_rules"
  /\ LET r == get_top_k_rules(args.doc_text, args.rule_texts, args.rule_filenames, args.k)
     IN  /\ ret' = r.ret
         /\ exc' = r.exc
         /\ locals' = r.locals
  /\ pc' = "done"
  /\ UNCHANGED <<args, self>>

Next == CallTopK

Spec == Init /\ [][Next]_vars

(***************************************************************************)
(* chunk_text on its own: every text of up to MaxTextLen characters.       *)
(***************************************************************************)
ChunkAlphabet == {"a", "B", " ", "."}

ChunkArgs ==
  {[op |-> "chunk_text", text |-> t, chunk_size |-> c] :
     t \in SeqsUpTo(ChunkAlphabet, MaxTextLen), c \in 1..MaxChunkSize}

InitChunk ==
  /\ pc = "call"
  /\ args \in ChunkArgs
  /\ locals = NoLocals
  /\ ret = <<>>
  /\ exc = "none"
  /\ self = NoSelf

CallChunk ==
  /\ pc = "call"
  /\ args.op = "chunk_text"
  /\ ret' = chunk_text(args.text, args.chunk_size)
  /\ pc' = "done"
  /\ UNCHANGED <<args, locals, exc, self>>

NextChunk == CallChunk

SpecChunk == InitChunk /\ [][NextChunk]_vars

(***************************************************************************)
(* get_tf and get_cosine_similarity on their own: every token list of up   *)
(* to MaxTfTokens words, and every pair of TF-IDF vectors that              *)
(* get_tfidf_vector makes of a token list and an IDF map of get_idf.       *)
(***************************************************************************)
TfArgs ==
  {[op |-> "get_tf", tokens |-> t] : t \in SeqsUpTo(Words \cup {<<"a", "b">>}, MaxTfTokens)}

VecTokenLists == SeqsUpTo(Words, MaxVecTokens)

IdfMaps == {get_idf(d) : d \in UNION {[1..m -> VecTokenLists] : m \in IdfDocCounts}}

TfidfVectors == {get_tfidf_vector(t, idf) : t \in VecTokenLists, idf \in IdfMaps}

CosineArgs ==
  {[op |-> "get_cosine_similarity", vec1 |-> v1, vec2 |-> v2] :
     v1 \in TfidfVectors, v2 \in TfidfVectors}

InitVector ==
  /\ pc = "call"
  /\ args \in TfArgs \cup CosineArgs
  /\ locals = NoLocals
  /\ ret = <<>>
  /\ exc = "none"
  /\ self = NoSelf

CallTf ==
  /\ pc = "call"
  /\ args.op = "get_tf"
  /\ IF get_tf_raises(args.tokens)
     THEN ret' = <<>> /\ exc' = "ZeroDivisionError"
     ELSE ret' = get_tf(args.tokens) /\ exc' = "none"
  /\ pc' = "done"
  /\ UNCHANGED <<args, locals, self>>

CallCosine ==
  /\ pc = "call"
  /\ args.op = "get_cosine_similarity"
  /\ IF get_cosine_similarity_raises(args.vec1, args.vec2)
     THEN ret' = <<>> /\ exc' = "ZeroDivisionError"
     ELSE ret' = get_cosine_similarity(args.vec1, args.vec2) /\ exc' = "none"
  /\ pc' = "done"
  /\ UNCHANGED <<args, locals, self>>

NextVector == CallTf \/ CallCosine

SpecVector == InitVector /\ [][NextVector]_vars

(***************************************************************************)
(* A query copied from the middle of the only rule text.  The source's     *)
(* scenario (1000 tokens, windows of 400, an excerpt of 50) is scaled to   *)
(* two and a half windows of RuleChunkSize tokens and an excerpt that lies *)
(* inside the second window.                                               *)
(***************************************************************************)
ExcerptWords == {<<"a">>, <<"b">>, <<"a", "b">>}

ExcerptCorpusTokens == 2 * RuleChunkSize + (RuleChunkSize + 1) \div 2

ExcerptArgs ==
  {[op |-> "get_top_k_rules",
    doc_text |-> str_join(SubSeq(t, from, to)),
    rule_texts |-> <<str_join(t)>>,
    rule_filenames |-> SubSeq(Filenames, 1, 1),
    k |-> 1] :
     t \in [1..ExcerptCorpusTokens -> ExcerptWords],
     from \in (RuleChunkSize + 1)..(2 * RuleChunkSize),
     to \in (RuleChunkSize + 1)..(2 * RuleChunkSize)}

InitExcerpt ==
  /\ pc = "call"
  /\ args \in ExcerptArgs
  /\ preprocess(args.doc_text) # <<>>
  /\ locals = NoLocals
  /\ ret = <<>>
  /\ exc = "none"
  /\ self = NoSelf

SpecExcerpt == InitExcerpt /\ [][Next]_vars

(***************************************************************************)
(* Properties of get_top_k_rules.                                          *)
(***************************************************************************)
TopKDone == pc = "done" /\ args.op = "get_top_k_rules"

\* x is ranked before y: higher similarity, or equal similarity and lower index
RankedBefore(x, y) ==
  \/ SimLess(y.sim, x.sim)
  \/ x.sim = y.sim /\ x.idx < y.idx

TopIdx == {locals.top[j].idx : j \in DOMAIN locals.top}

\* C1: with a non-empty corpus of n chunks and k >= 0, get_top_k_rules returns
\* the first min(k, n) chunks of the ranking by similarity descending, then
\* chunk index ascending: the returned entries are chunks with their own
\* similarity, in strictly ranked order, and every chunk left out is ranked
\* behind every chunk returned.
C1_TopKIsRankPrefix ==
  (TopKDone /\ args.rule_texts # <<>>) =>
    LET sims == locals.similarity_with_index
        top == locals.top
        n == Len(locals.all_chunks)
    IN  /\ exc = "none"
        /\ Len(sims) = n
        /\ \A i \in 1..n : sims[i].idx = i - 1
        /\ Len(ret) = Min(args.k, n)
        /\ Len(top) = Len(ret)
        /\ \A j \in DOMAIN top :
             /\ top[j].idx \in 0..(n - 1)
             /\ top[j] = sims[top[j].idx + 1]
             /\ ret[j] = locals.all_chunks[top[j].idx + 1].chunk
        /\ \A j \in 1..(Len(top) - 1) : RankedBefore(top[j], top[j + 1])
        /\ \A i \in 1..n : sims[i].idx \notin TopIdx =>
             \A j \in DOMAIN top : RankedBefore(top[j], sims[i])

\* C1 witness: three or more chunks, a tie at the cut-off (a returned and a
\* left-out chunk of equal similarity) and two chunks of different similarity
C1_Witness ==
  /\ TopKDone
  /\ Len(locals.all_chunks) >= 3
  /\ args.k > 0
  /\ \E i \in DOMAIN locals.similarity_with_index :
       /\ locals.similarity_with_index[i].idx \notin TopIdx
       /\ locals.similarity_with_index[i].sim = locals.top[Len(locals.top)].sim
  /\ \E i, j \in DOMAIN locals.similarity_with_index :
       SimLess(locals.similarity_with_index[i].sim, locals.similarity_with_index[j].sim)

\* C2: with an empty rule_texts the call returns the empty list and raises
\* nothing, whatever the document text and k
C2_EmptyCorpusReturnsEmpty ==
  (TopKDone /\ args.rule_texts = <<>>) => (ret = <<>> /\ exc = "none")

\* C2 witness: a finished call on an empty corpus with a document and k > 0
C2_Witness ==
  /\ TopKDone
  /\ args.rule_texts = <<>>
  /\ preprocess(args.doc_text) # <<>>
  /\ args.k > 0

NoRuleTokens == \A i \in DOMAIN args.rule_texts : preprocess(args.rule_texts[i]) = <<>>

\* C6: when no rule text has a token (rule_texts not empty) or k is 0, the call
\* returns the empty list and raises nothing, for every document text
C6_NoCandidatesOrZeroK ==
  (TopKDone /\ ((args.rule_texts # <<>> /\ NoRuleTokens) \/ args.k = 0)) =>
    (ret = <<>> /\ exc = "none")

\* C6 witness: rule texts without any token, k > 0 and a document without tokens
C6_Witness ==
  /\ TopKDone
  /\ args.rule_texts # <<>>
  /\ NoRuleTokens
  /\ args.k > 0
  /\ preprocess(args.doc_text) = <<>>
  /\ ret = <<>>

\* the number of chunks of the rule text i
NumChunks(i) ==
  (Len(preprocess(args.rule_texts[i])) + RuleChunkSize - 1) \div RuleChunkSize

RECURSIVE ChunksBefore(_)
\* the number of chunks of the rule texts before rule text i
ChunksBefore(i) == IF i = 1 THEN 0 ELSE ChunksBefore(i - 1) + NumChunks(i - 1)

\* the rule text the chunk at position p (from 1) of all_chunks belongs to
RuleOfChunk(p) ==
  CHOOSE i \in DOMAIN args.rule_texts : ChunksBefore(i) < p /\ p <= ChunksBefore(i) + NumChunks(i)

\* C11: every chunk holds the tokens of one window of exactly one rule text and
\* carries the filename of that rule text; the chunks are in rule-text order,
\* then window order; the filename reported for a returned chunk is the one
\* of the rule text the chunk came from.
C11_ChunkBelongsToOneRuleText ==
  (TopKDone /\ args.rule_texts # <<>>) =>
    LET all_chunks == locals.all_chunks
        n == Len(args.rule_texts)
    IN  /\ exc = "none"
        /\ Len(all_chunks) = ChunksBefore(n) + NumChunks(n)
        /\ \A p \in DOMAIN all_chunks :
             LET i == RuleOfChunk(p)
                 j == p - ChunksBefore(i)
                 tokens == preprocess(args.rule_texts[i])
             IN  /\ str_split(all_chunks[p].chunk) =
                      SubSeq(tokens, (j - 1) * RuleChunkSize + 1,
                             Min(j * RuleChunkSize, Len(tokens)))
                 /\ all_chunks[p].filename = args.rule_filenames[i]
        /\ Len(locals.top_k_filenames) = Len(ret)
        /\ \A j \in DOMAIN ret :
             /\ ret[j] = all_chunks[locals.top[j].idx + 1].chunk
             /\ locals.top_k_filenames[j] =
                  args.rule_filenames[RuleOfChunk(locals.top[j].idx + 1)]

\* C11 witness: the first rule text ends in a short window, the second rule
\* text follows it, and chunks of both are returned
C11_Witness ==
  /\ TopKDone
  /\ Len(args.rule_texts) = 2
  /\ Len(preprocess(args.rule_texts[1])) % RuleChunkSize # 0
  /\ NumChunks(1) >= 2
  /\ NumChunks(2) >= 1
  /\ exc = "none"
  /\ \E j, m \in DOMAIN ret :
       /\ locals.top_k_filenames[j] = args.rule_filenames[1]
       /\ locals.top_k_filenames[m] = args.rule_filenames[2]
       /\ locals.top[j].idx = 1

\* the token list sub occurs in the token list tokens, contiguously
ContainsTokens(tokens, sub) ==
  \E i \in 0..(Len(tokens) - Len(sub)) : SubSeq(tokens, i + 1, i + Len(sub)) = sub

\* the similarity of the chunk with index idx (from 0)
SimOfChunk(idx) == locals.similarity_with_index[idx + 1].sim

\* the index (from 0) of the chunk the excerpt was copied from: the one
\* that holds the middle token of the rule text
ExcerptChunk == (ExcerptCorpusTokens \div 2) \div RuleChunkSize

\* C12 as stated: with one rule text and a query copied from its middle,
\* k = 1 returns the chunk that contains the excerpt, and the similarity of
\* the chunk the excerpt was copied from is the highest of all chunks.
C12_ExcerptChunkReturned ==
  TopKDone =>
    /\ exc = "none"
    /\ Len(ret) = 1
    /\ ContainsTokens(preprocess(ret[1]), locals.processed_doc)
    /\ \A i \in DOMAIN locals.processed_chunks :
         ~SimLess(SimOfChunk(ExcerptChunk), SimOfChunk(i - 1))

\* no token of the query occurs in a chunk other than the one it was copied from
ExcerptTokensOnlyInItsChunk ==
  \A i \in DOMAIN locals.processed_chunks :
    i - 1 # ExcerptChunk =>
      Range(locals.processed_chunks[i]) \cap Range(locals.processed_doc) = {}

\* C12 as amended: when no token of the excerpt occurs in another chunk of
\* the corpus, k = 1 returns the chunk the excerpt was copied from, and
\* that chunk's similarity is strictly above every other chunk's.
C12_ExcerptChunkReturnedWhenTokensUnique ==
  (TopKDone /\ ExcerptTokensOnlyInItsChunk) =>
    /\ exc = "none"
    /\ Len(ret) = 1
    /\ locals.top[1].idx = ExcerptChunk
    /\ ret[1] = locals.all_chunks[ExcerptChunk + 1].chunk
    /\ ContainsTokens(preprocess(ret[1]), locals.processed_doc)
    /\ \A i \in DOMAIN locals.processed_chunks :
         i - 1 # ExcerptChunk => SimLess(SimOfChunk(i - 1), SimOfChunk(ExcerptChunk))

\* C12 witness: three chunks, the excerpt's tokens in the second one only,
\* which also holds a token of another chunk; the second chunk is returned
C12_Witness ==
  /\ TopKDone
  /\ ExcerptTokensOnlyInItsChunk
  /\ args.k = 1
  /\ Len(args.rule_texts) = 1
  /\ Len(locals.all_chunks) = 3
  /\ Range(locals.processed_chunks[2]) \cap Range(locals.processed_chunks[1]) # {}
  /\ locals.top[1].idx = ExcerptChunk
  /\ ret = <<locals.all_chunks[2].chunk>>

\* the token lists the IDF map is computed from: the chunks, then the query
IdfDocuments == Append(locals.processed_chunks, locals.processed_doc)

\* the number of those token lists that hold the token
DocumentFrequency(token) ==
  Cardinality({i \in DOMAIN IdfDocuments : token \in Range(IdfDocuments[i])})

\* C14: the IDF of every token of the chunks and the query is ln(N / (1 + df)),
\* N being the number of chunks plus one and df the number of token lists
\* (chunks and query) that hold the token; it is negative when df = N, zero
\* when df = N - 1 and positive otherwise.
C14_IdfIsSmoothedLog ==
  (TopKDone /\ args.rule_texts # <<>> /\ exc = "none") =>
    LET N == Len(locals.all_chunks) + 1
    IN  /\ Len(IdfDocuments) = N
        /\ DOMAIN locals.idf = UNION {Range(IdfDocuments[i]) : i \in DOMAIN IdfDocuments}
        /\ \A token \in DOMAIN locals.idf :
             LET df == DocumentFrequency(token)
             IN  /\ df \in 1..N
                 /\ locals.idf[token] = LnTable[N] - LnTable[1 + df]
                 /\ df = N => locals.idf[token] < 0
                 /\ df = N - 1 => locals.idf[token] = 0
                 /\ df < N - 1 => locals.idf[token] > 0

\* C14 witness: three chunks or more, a token of every chunk and the query
\* and a token that one of them lacks
C14_Witness ==
  /\ TopKDone
  /\ exc = "none"
  /\ Len(locals.all_chunks) >= 3
  /\ \E t, u \in DOMAIN locals.idf :
       /\ DocumentFrequency(t) = Len(locals.all_chunks) + 1
       /\ locals.idf[t] < 0
       /\ DocumentFrequency(u) = Len(locals.all_chunks)
       /\ locals.idf[u] = 0

\* C17: when doc_text has no token (empty, blanks only or punctuation only)
\* the call raises nothing, every chunk has similarity 0.0 and the result is
\* the first min(k, n) chunks in index order.
C17_EmptyQueryReturnsFirstChunks ==
  (TopKDone /\ args.rule_texts # <<>> /\ preprocess(args.doc_text) = <<>>) =>
    LET n == Len(locals.all_chunks)
    IN  /\ exc = "none"
        /\ Len(locals.similarity_with_index) = n
        /\ \A i \in 1..n : locals.similarity_with_index[i].sim = SimZero
        /\ Len(ret) = Min(args.k, n)
        /\ \A j \in DOMAIN ret :
             /\ locals.top[j].idx = j - 1
             /\ ret[j] = locals.all_chunks[j].chunk

\* C17 witness: a query of punctuation only, three chunks or more, of which
\* two are returned
C17_Witness ==
  /\ TopKDone
  /\ args.doc_text # <<>>
  /\ "." \in Range(args.doc_text)
  /\ preprocess(args.doc_text) = <<>>
  /\ Len(locals.all_chunks) >= 3
  /\ args.k = 2
  /\ ret = <<locals.all_chunks[1].chunk, locals.all_chunks[2].chunk>>
  /\ exc = "none"

(***************************************************************************)
(* Properties of get_tf and get_cosine_similarity.                         *)
(***************************************************************************)
TfDone == pc = "done" /\ args.op = "get_tf"

FracOne == [num |-> 1, den |-> 1]

\* the values of the returned map sum to 1, each value is the token's count
\* over the length of the list, and the counts sum to that length
TfSumsToOne ==
  /\ exc = "none"
  /\ FracSum(DOMAIN ret, ret) = FracOne
  /\ DOMAIN ret = Range(args.tokens)
  /\ \A t \in DOMAIN ret :
       ret[t] = Frac(Cardinality({i \in DOMAIN args.tokens : args.tokens[i] = t}),
                     Len(args.tokens))
  /\ SumOver(DOMAIN ret,
             [t \in DOMAIN ret |->
                Cardinality({i \in DOMAIN args.tokens : args.tokens[i] = t})])
       = Len(args.tokens)

\* C13 as stated: for any token list the values of the map get_tf returns sum
\* to 1, each being the token's count divided by the number of tokens.
C13_TfSumsToOne == TfDone => TfSumsToOne

\* C13 as amended: for any token list that is not empty the values of the map
\* get_tf returns sum to 1, each being the token's count divided by the
\* number of tokens; for the empty list the map is empty (its values sum to 0).
C13_TfSumsToOneUnlessEmpty ==
  TfDone =>
    /\ exc = "none"
    /\ args.tokens # <<>> => TfSumsToOne
    /\ args.tokens = <<>> => DOMAIN ret = {}

\* C13 witness: a list with a repeated token and another token
C13_Witness ==
  /\ TfDone
  /\ Len(args.tokens) = 3
  /\ Cardinality(DOMAIN ret) = 2
  /\ \E t \in DOMAIN ret : ret[t] = Frac(2, 3)
  /\ FracSum(DOMAIN ret, ret) = FracOne

CosineDone == pc = "done" /\ args.op = "get_cosine_similarity"

\* the similarity 1.0
SimOne == [sign |-> 1, sq |-> FracOne]

\* a vector without keys, or with zero weights only
ZeroMagnitude(vec) == \A x \in DOMAIN vec : vec[x].num = 0

\* C15 as stated: the similarity of a TF-IDF vector with itself is 1.0.
C15_SelfSimilarityIsOne ==
  (CosineDone /\ args.vec1 = args.vec2) => (exc = "none" /\ ret = SimOne)

\* C15 as amended: the similarity of a TF-IDF vector of non-zero magnitude
\* with itself is 1.0; of a vector of zero magnitude with itself it is 0.0.
C15_SelfSimilarityIsOneUnlessZero ==
  (CosineDone /\ args.vec1 = args.vec2) =>
    /\ exc = "none"
    /\ ~ZeroMagnitude(args.vec1) => ret = SimOne
    /\ ZeroMagnitude(args.vec1) => ret = SimZero

\* C15 witness: a vector with two keys, one weight negative and one positive
C15_Witness ==
  /\ CosineDone
  /\ args.vec1 = args.vec2
  /\ \E x, y \in DOMAIN args.vec1 : args.vec1[x].num < 0 /\ args.vec1[y].num > 0
  /\ ret = SimOne

\* C16: when a vector has zero magnitude (no key, or zero weights only) the
\* similarity is exactly 0.0 and no division error is raised, whatever the
\* other vector is.
C16_ZeroMagnitudeGivesZero ==
  (CosineDone /\ (ZeroMagnitude(args.vec1) \/ ZeroMagnitude(args.vec2))) =>
    (exc = "none" /\ ret = SimZero)

\* C16 witness: the second vector has a key of weight zero, the first one is
\* not zero
C16_Witness ==
  /\ CosineDone
  /\ ~ZeroMagnitude(args.vec1)
  /\ DOMAIN args.vec2 # {}
  /\ ZeroMagnitude(args.vec2)
  /\ DOMAIN args.vec1 \cap DOMAIN args.vec2 # {}
  /\ ret = SimZero
  /\ exc = "none"

(***************************************************************************)
(* Properties of chunk_text.                                               *)
(***************************************************************************)
RECURSIVE Flatten(_)
Flatten(ss) == IF ss = <<>> THEN <<>> ELSE Head(ss) \o Flatten(Tail(ss))

ChunkDone == pc = "done" /\ args.op = "chunk_text"

\* the tokens of a chunk string: its maximal blank-free pieces
ChunkTokens(chunk) == str_split(chunk)

\* C10: chunk_text cuts the T tokens of the text into ceil(T / chunk_size)
\* consecutive windows; all but the last hold chunk_size tokens, the last holds
\* 1..chunk_size, and the windows concatenated are the token sequence
C10_ChunksPartitionTokens ==
  ChunkDone =>
    LET tokens == preprocess(args.text)
        T == Len(tokens)
        n == Len(ret)
    IN  /\ n = (T + args.chunk_size - 1) \div args.chunk_size
        /\ \A j \in 1..(n - 1) : Len(ChunkTokens(ret[j])) = args.chunk_size
        /\ n > 0 => Len(ChunkTokens(ret[n])) \in 1..args.chunk_size
        /\ Flatten([j \in 1..n |-> ChunkTokens(ret[j])]) = tokens

\* C10 witness: three tokens or more cut into full windows of two and a shorter
\* last one, from a text with punctuation and a capital
C10_Witness ==
  /\ ChunkDone
  /\ args.chunk_size = 2
  /\ Len(preprocess(args.text)) >= 3
  /\ Len(ret) >= 2
  /\ Len(ChunkTokens(ret[Len(ret)])) = 1
  /\ "." \in Range(args.text)
  /\ "B" \in Range(args.text)

(***************************************************************************)
(* Properties of the token lists and similarities inside get_top_k_rules.  *)
(***************************************************************************)
\* C23: tokenizing the joined tokens of a text gives the tokens back, so the
\* token list scored for a chunk is the window of its rule text's tokens the
\* chunk was built from: same tokens, same order, at most the chunk size.
C23_RetokenizedChunkIsWindow ==
  (TopKDone /\ exc = "none") =>
    /\ \A i \in DOMAIN args.rule_texts :
         LET tokens == preprocess(args.rule_texts[i])
         IN  preprocess(str_join(tokens)) = tokens
    /\ preprocess(str_join(preprocess(args.doc_text))) = preprocess(args.doc_text)
    /\ \A p \in DOMAIN locals.processed_chunks :
         LET i == RuleOfChunk(p)
             j == p - ChunksBefore(i)
             tokens == preprocess(args.rule_texts[i])
         IN  /\ locals.processed_chunks[p] =
                  SubSeq(tokens, (j - 1) * RuleChunkSize + 1,
                         Min(j * RuleChunkSize, Len(tokens)))
             /\ Len(locals.processed_chunks[p]) <= RuleChunkSize

\* C23 witness: a rule text with a capital, punctuation and a run of blanks
\* follows a rule text of two windows; its chunk is scored as <<b, a>>
C23_Witness ==
  /\ TopKDone
  /\ exc = "none"
  /\ Len(args.rule_texts) = 2
  /\ NumChunks(1) = 2
  /\ args.rule_texts[2] = <<"B", ".", " ", " ", "a", "\n">>
  /\ Len(locals.processed_chunks) = 3
  /\ locals.processed_chunks[3] = <<<<"b">>, <<"a">>>>

\* C26: every similarity computed in get_top_k_rules is zero or positive, and
\* zero for a chunk that shares no token with the query document.
C26_SimilarityNotNegative ==
  (TopKDone /\ exc = "none") =>
    \A i \in DOMAIN locals.similarity_with_index :
      /\ locals.similarity_with_index[i].sim.sign >= 0
      /\ Range(locals.processed_chunks[i]) \cap Range(locals.processed_doc) = {}
           => locals.similarity_with_index[i].sim = SimZero

\* C26 witness: a token of the query has a negative IDF weight (it occurs in
\* every chunk) and a chunk holding it scores above zero
C26_Witness ==
  /\ TopKDone
  /\ exc = "none"
  /\ Len(locals.processed_chunks) >= 2
  /\ \E i \in DOMAIN locals.similarity_with_index :
       /\ locals.similarity_with_index[i].sim.sign = 1
       /\ \E t \in Range(locals.processed_chunks[i]) \cap Range(locals.processed_doc) :
            locals.idf[t] < 0

(***************************************************************************)
(* The heuristic document-type scorer.  A document is a sequence of        *)
(* symbols: words (pieces of letters and digits), the blank " ", the       *)
(* newline "\n" and punctuation marks.  Words that follow each other       *)
(* without a separator are written together ("way", "bill" is "waybill").  *)
(* An indicator \bw1\s*w2\b is the sequence w1, "\\s*", w2; a literal      *)
(* "w1 w2" is the sequence w1, " ", w2.                                     *)
(***************************************************************************)
Separators == {" ", "\n", ":", ",", "."}

IsWordSym(sym) == sym \notin Separators

IsSpaceSym(sym) == sym \in {" ", "\n"}

\* str.lower on a word; the words with capitals of the modelled documents
lower_word(w) ==
  CASE w = "Bill" -> "bill" [] w = "BILL" -> "bill"
    [] w = "Of" -> "of" [] w = "OF" -> "of"
    [] w = "Lading" -> "lading" [] w = "LADING" -> "lading"
    [] w = "Commercial" -> "commercial" [] w = "Invoice" -> "invoice"
    [] w = "Packing" -> "packing" [] w = "List" -> "list"
    [] w = "Shipment" -> "shipment" [] w = "Advice" -> "advice"
    [] w = "Please" -> "please" [] w = "Vessel" -> "vessel"
    [] OTHER -> w

content_lower_of(content) == [i \in DOMAIN content |-> lower_word(content[i])]

RECURSIVE SkipSpace(_, _)
SkipSpace(text, i) ==
  IF i <= Len(text) /\ IsSpaceSym(text[i]) THEN SkipSpace(text, i + 1) ELSE i

RECURSIVE RxMatchAt(_, _, _, _)
\* pat from element j on matches text from position i on, up to the closing \b
RxMatchAt(text, i, pat, j) ==
  IF j > Len(pat) THEN i > Len(text) \/ ~IsWordSym(text[i])
  ELSE IF pat[j] = "\\s*" THEN RxMatchAt(text, SkipSpace(text, i), pat, j + 1)
  ELSE i <= Len(text) /\ text[i] = pat[j] /\ RxMatchAt(text, i + 1, pat, j + 1)

\* re.search(r"\b...\b", text)
re_search(pat, text) ==
  \E i \in DOMAIN text :
    /\ text[i] = pat[1]
    /\ i = 1 \/ ~IsWordSym(text[i - 1])
    /\ RxMatchAt(text, i, pat, 1)

\* sub in text
str_in(sub, text) ==
  \E i \in 1..(Len(text) - Len(sub) + 1) :
    /\ text[i] = sub[1]
    /\ SubSeq(text, i, i + Len(sub) - 1) = sub

\* the literal made of the words ws with single blanks between them
RECURSIVE Lit(_)
Lit(ws) ==
  IF Len(ws) = 1 THEN <<ws[1]>> ELSE <<ws[1], " ">> \o Lit(Tail(ws))

\* any(term in text for term in terms)
any_in(terms, text) == \E t \in terms : str_in(t, text)

\* the loop "for pattern in indicators: if re.search(...): score += 1"
indicator_score(indicators, text) ==
  Cardinality({i \in DOMAIN indicators : re_search(indicators[i], text)})

RECURSIVE SplitLinesFrom(_, _, _, _)
\* str.split('\n')
SplitLinesFrom(text, i, cur, acc) ==
  IF i > Len(text) THEN Append(acc, cur)
  ELSE IF text[i] = "\n" THEN SplitLinesFrom(text, i + 1, <<>>, Append(acc, cur))
  ELSE SplitLinesFrom(text, i + 1, Append(cur, text[i]), acc)

split_lines(text) == SplitLinesFrom(text, 1, <<>>, <<>>)

RECURSIVE str_strip(_)
str_strip(line) ==
  IF line = <<>> THEN line
  ELSE IF IsSpaceSym(Head(line)) THEN str_strip(Tail(line))
  ELSE IF IsSpaceSym(line[Len(line)]) THEN str_strip(SubSeq(line, 1, Len(line) - 1))
  ELSE line

\* [line.strip().lower() for line in lines if line.strip()]
stripped_lines(lines) ==
  LET kept == SelectSeq(lines, LAMBDA line : str_strip(line) # <<>>)
  IN  [i \in DOMAIN kept |-> content_lower_of(str_strip(kept[i]))]

dhl_indicators ==
  <<<<"d", "h", "l">>,
    <<"d", "\\s*", "h", "\\s*", "l">>,
    <<"d", "\\s*", "h", "\\s*", "l">>,
    <<"way", "bill">>,
    <<"way", "\\s*", "bill">>,
    <<"tracking", "\\s*", "number">>,
    <<"track", "\\s*", "no">>,
    <<"air", "way", "\\s*", "bill">>,
    <<"air", "\\s*", "way", "\\s*", "bill">>,
    <<"express", "\\s*", "service">>,
    <<"delivery", "\\s*", "receipt">>,
    <<"delivery", "\\s*", "note">>,
    <<"parcel", "\\s*", "receipt">>,
    <<"parcel", "\\s*", "note">>,
    <<"shipping", "\\s*", "label">>,
    <<"ship", "\\s*", "label">>,
    <<"consignment", "\\s*", "note">>,
    <<"consign", "\\s*", "note">>,
    <<"dispatch", "\\s*", "note">>,
    <<"dispatch", "\\s*", "advice">>>>

invoice_indicators ==
  <<<<"commercial", "\\s*", "invoice">>,
    <<"invoice", "\\s*", "no">>,
    <<"invoice", "\\s*", "date">>,
    <<"total", "\\s*", "invoice", "\\s*", "value">>,
    <<"total", "\\s*", "value">>,
    <<"invoice", "\\s*", "value">>,
    <<"cfr">>,
    <<"cif">>,
    <<"fob">>,
    <<"ex", "\\s*", "works">>,
    <<"currency">>,
    <<"unit", "\\s*", "price">>,
    <<"price", "\\s*", "per", "\\s*", "unit">>,
    <<"rate">>,
    <<"quantity">>,
    <<"qty">>,
    <<"amount">>,
    <<"net", "\\s*", "weight">>,
    <<"gross", "\\s*", "weight">>,
    <<"packaging">>,
    <<"payment", "\\s*", "terms">>,
    <<"payment", "\\s*", "conditions">>,
    <<"terms", "\\s*", "of", "\\s*", "payment">>,
    <<"buyer">>,
    <<"seller">>,
    <<"vendor">>,
    <<"supplier">>,
    <<"purchaser">>,
    <<"customer">>,
    <<"goods", "\\s*", "description">>,
    <<"description", "\\s*", "of", "\\s*", "goods">>,
    <<"product", "\\s*", "description">>,
    <<"incoterms">>,
    <<"export", "\\s*", "reference", "s">>,
    <<"job", "\\s*", "no">>,
    <<"contract", "\\s*", "no">>,
    <<"order", "\\s*", "no">>,
    <<"purchase", "\\s*", "order">>,
    <<"po", "\\s*", "no">>>>

bol_indicators ==
  <<<<"bill", "\\s*", "of", "\\s*", "lading">>,
    <<"ocean", "\\s*", "freight">>,
    <<"shipper", "\\s*", "exporter">>,
    <<"shipper">>,
    <<"exporter">>,
    <<"consignee">>,
    <<"notify", "\\s*", "party">>,
    <<"notify">>,
    <<"port", "\\s*", "of", "\\s*", "loading">>,
    <<"port", "\\s*", "of", "\\s*", "discharge">>,
    <<"port", "\\s*", "of", "\\s*", "unloading">>,
    <<"vessel">>,
    <<"ship">>,
    <<"carrier">>,
    <<"container", "\\s*", "no">>,
    <<"container", "\\s*", "number">>,
    <<"seal", "\\s*", "no">>,
    <<"seal", "\\s*", "number">>,
    <<"shipped", "\\s*", "on", "\\s*", "board">>,
    <<"on", "\\s*", "board", "\\s*", "date">>,
    <<"non", "\\s*", "negotiable">>,
    <<"ocean", "\\s*", "track">>,
    <<"nvocc">>,
    <<"for", "warding", "\\s*", "agent">>,
    <<"freight", "\\s*", "for", "warder">>,
    <<"transport", "\\s*", "company">>,
    <<"shipping", "\\s*", "line">>,
    <<"ocean", "\\s*", "carrier">>,
    <<"voyage", "\\s*", "no">>,
    <<"voyage", "\\s*", "number">>,
    <<"route">>,
    <<"shipping", "\\s*", "route">>,
    <<"transit", "\\s*", "time">>,
    <<"delivery", "\\s*", "terms">>,
    <<"shipping", "\\s*", "terms">>,
    <<"freight", "\\s*", "terms">>,
    <<"freight", "\\s*", "prepaid">>,
    <<"freight", "\\s*", "collect">>,
    <<"charter", "\\s*", "party">>,
    <<"charter", "\\s*", "party", "\\s*", "bill">>,
    <<"house", "\\s*", "bill">>,
    <<"master", "\\s*", "bill">>,
    <<"straight", "\\s*", "bill">>,
    <<"order", "\\s*", "bill">>,
    <<"negotiable", "\\s*", "bill">>>>

packing_indicators ==
  <<<<"packing", "\\s*", "list">>,
    <<"package", "\\s*", "list">>,
    <<"packages">>,
    <<"package", "\\s*", "numbers">>,
    <<"package", "\\s*", "nos">>,
    <<"packaging", "\\s*", "details">>,
    <<"contents", "\\s*", "list">>,
    <<"item", "\\s*", "list">>,
    <<"goods", "\\s*", "list">>,
    <<"packing", "\\s*", "instructions">>,
    <<"packing", "\\s*", "details">>,
    <<"package", "\\s*", "contents">>,
    <<"package", "\\s*", "description">>>>

shipment_indicators ==
  <<<<"shipment", "\\s*", "advice">>,
    <<"shipping", "\\s*", "advice">>,
    <<"shipment", "\\s*", "notification">>,
    <<"shipping", "\\s*", "notification">>,
    <<"advice", "\\s*", "of", "\\s*", "shipment">>,
    <<"shipment", "\\s*", "details">>,
    <<"shipping", "\\s*", "details">>,
    <<"shipment", "\\s*", "information">>,
    <<"shipping", "\\s*", "information">>,
    <<"shipment", "\\s*", "status">>,
    <<"shipping", "\\s*", "status">>>>

covering_indicators ==
  <<<<"covering", "\\s*", "schedule">>,
    <<"schedule", "\\s*", "of", "\\s*", "documents">>,
    <<"document", "\\s*", "schedule">>,
    <<"attachments", "\\s*", "list">>,
    <<"supporting", "\\s*", "documents">>,
    <<"document", "\\s*", "list">>,
    <<"attachments">>,
    <<"supporting", "\\s*", "docs">>,
    <<"document", "\\s*", "attachments">>,
    <<"schedule", "\\s*", "of", "\\s*", "attachments">>>>

(***************************************************************************)
(* _heuristic_detect_document_type.                                        *)
(***************************************************************************)
HeaderLines == 15

DocTypes ==
  <<"DHL RECEIPT", "COMMERCIAL INVOICE", "BILL OF LADING", "PACKING LIST",
    "SHIPMENT ADVICE", "COVERING SCHEDULE">>

ScoreKeys == <<"dhl", "invoice", "bol", "packing", "shipment", "covering">>

L_dhl == <<"d", "h", "l">>

L_waybill == <<"way", "bill">>

L_bill_of_lading == Lit(<<"bill", "of", "lading">>)

L_packing_list == Lit(<<"packing", "list">>)

L_shipment_advice == Lit(<<"shipment", "advice">>)

L_shipping_advice == Lit(<<"shipping", "advice">>)

L_covering_schedule == Lit(<<"covering", "schedule">>)

L_commercial_invoice == Lit(<<"commercial", "invoice">>)

L_mail_of_documents == Lit(<<"mail", "of", "documents">>)

L_please_find_enclosed == Lit(<<"please", "find", "enclosed">>)

L_schedule_of_documents == Lit(<<"schedule", "of", "documents">>)

\* the terms that mark a list of documents around "bill of lading"
list_context_terms ==
  {Lit(<<"1st", "mail">>), Lit(<<"2nd", "mail">>), L_mail_of_documents,
   L_please_find_enclosed, Lit(<<"documents", "for">>)}

meta_document_terms ==
  {Lit(<<"please", "find", "enclosed", "the", "following", "documents">>),
   Lit(<<"enclosed", "the", "following", "documents">>),
   Lit(<<"documents", "for">>),
   Lit(<<"1st", "mail">>), Lit(<<"2nd", "mail">>),
   <<"draft">>, <<"konnossement">>,
   L_mail_of_documents,
   Lit(<<"documentary", "credit">>),
   Lit(<<"our", "reference", "date">>),
   Lit(<<"your", "reference">>)}

covering_terms ==
  {L_covering_schedule,
   L_schedule_of_documents,
   Lit(<<"document", "schedule">>),
   Lit(<<"attachments", "list">>),
   Lit(<<"supporting", "documents">>),
   Lit(<<"document", "list">>),
   <<"attachments">>,
   Lit(<<"supporting", "docs">>),
   Lit(<<"document", "attachments">>),
   Lit(<<"schedule", "of", "attachments">>)}

shipment_terms ==
  {Lit(<<"shipment", "details">>), Lit(<<"shipping", "details">>),
   Lit(<<"vessel", "name">>), Lit(<<"shipped", "on", "board", "date">>),
   Lit(<<"expected", "arrival", "date">>)}

\* variant: the commercial-invoice branch comes first
header_branch_invoice_first(line) ==
  IF str_in(L_commercial_invoice, line) THEN "invoice"
  ELSE IF str_in(L_packing_list, line) THEN "packing"
  ELSE IF str_in(L_shipment_advice, line) THEN "shipment"
  ELSE IF str_in(L_covering_schedule, line) THEN "covering"
  ELSE IF str_in(L_bill_of_lading, line) THEN "bol"
  ELSE IF str_in(L_dhl, line) \/ str_in(L_waybill, line) THEN "dhl"
  ELSE "none"

\* variant: the header loop has no bill-of-lading branch
header_branch_no_bol(line) ==
  IF str_in(L_packing_list, line) THEN "packing"
  ELSE IF str_in(L_shipment_advice, line) THEN "shipment"
  ELSE IF str_in(L_covering_schedule, line) THEN "covering"
  ELSE IF str_in(L_commercial_invoice, line) THEN "invoice"
  ELSE IF str_in(L_dhl, line) \/ str_in(L_waybill, line) THEN "dhl"
  ELSE "none"

\* the branch of the header loop a line takes ("none": no branch)
header_branch(line) ==
  IF str_in(L_packing_list, line) THEN "packing"
  ELSE IF str_in(L_shipment_advice, line) THEN "shipment"
  ELSE IF str_in(L_covering_schedule, line) THEN "covering"
  ELSE IF str_in(L_commercial_invoice, line) THEN "invoice"
  ELSE IF str_in(L_bill_of_lading, line) THEN "bol"
  ELSE IF str_in(L_dhl, line) \/ str_in(L_waybill, line) THEN "dhl"
  ELSE "none"

\* sub in str(first_lines)
in_str_of(sub, first_lines) == \E i \in DOMAIN first_lines : str_in(sub, first_lines[i])

\* the branch of the whole-document loop a line takes
body_branch(line, first_lines) ==
  IF str_in(L_shipment_advice, line) /\ ~in_str_of(L_shipment_advice, first_lines)
  THEN "shipment"
  ELSE IF str_in(L_covering_schedule, line) /\ ~in_str_of(L_covering_schedule, first_lines)
  THEN "covering"
  ELSE IF str_in(L_packing_list, line) /\ ~in_str_of(L_packing_list, first_lines)
  THEN "packing"
  ELSE IF str_in(L_commercial_invoice, line) /\ ~in_str_of(L_commercial_invoice, first_lines)
  THEN "invoice"
  ELSE IF str_in(L_bill_of_lading, line) /\ ~in_str_of(L_bill_of_lading, first_lines)
  THEN "bol"
  ELSE IF /\ str_in(L_dhl, line) \/ str_in(L_waybill, line)
          /\ ~in_str_of(L_dhl, first_lines)
          /\ ~in_str_of(L_waybill, first_lines)
  THEN "dhl"
  ELSE "none"

\* how many of the lines take branch b
BranchCount(branches, b) == Cardinality({i \in DOMAIN branches : branches[i] = b})

\* variant: a line that took the score's branch adds 1
line_boost_by_one(s, branches) ==
  [key \in DOMAIN s |-> s[key] + BranchCount(branches, key)]

\* score + 5 for every line that took the score's branch
line_boost(s, branches) ==
  [key \in DOMAIN s |-> s[key] + 5 * BranchCount(branches, key)]

Penalize(s, key, n) == [s EXCEPT ![key] = Max(0, @ - n)]

Boost(s, key, n) == [s EXCEPT ![key] = @ + n]

TotalOf(s) == s.dhl + s.invoice + s.bol + s.packing + s.shipment + s.covering

\* variant: the higher of the invoice and bill-of-lading scores is discounted
mixed_indicator_penalty_higher(s, c) ==
  IF TotalOf(s) > 20
  THEN LET s1 == IF s.invoice > 0 /\ s.bol > 0
                 THEN IF s.invoice > s.bol
                      THEN Penalize(s, "invoice", 3)
                      ELSE Penalize(s, "bol", 3)
                 ELSE s
       IN  IF /\ s1.invoice > 0
              /\ s1.packing > 0 \/ s1.shipment > 0 \/ s1.covering > 0
              /\ \/ str_in(L_packing_list, c)
                 \/ str_in(L_shipment_advice, c)
                 \/ str_in(L_covering_schedule, c)
           THEN Penalize(s1, "invoice", 2)
           ELSE s1
  ELSE s

\* lines 485-505: the discounts of a document with many mixed indicators
mixed_indicator_penalty(s, c) ==
  IF TotalOf(s) > 20
  THEN LET s1 == IF s.invoice > 0 /\ s.bol > 0
                 THEN IF s.invoice < s.bol
                      THEN Penalize(s, "invoice", 3)
                      ELSE Penalize(s, "bol", 3)
                 ELSE s
       IN  IF /\ s1.invoice > 0
              /\ s1.packing > 0 \/ s1.shipment > 0 \/ s1.covering > 0
              /\ \/ str_in(L_packing_list, c)
                 \/ str_in(L_shipment_advice, c)
                 \/ str_in(L_covering_schedule, c)
           THEN Penalize(s1, "invoice", 2)
           ELSE s1
  ELSE s

\* lines 507-527: the penalties of the bill-of-lading score
bol_covering_penalty(s, c, found) ==
  LET s1 == IF found >= 2 /\ s.bol > 0
            THEN IF str_in(L_mail_of_documents, c) \/ str_in(L_please_find_enclosed, c)
                 THEN Penalize(s, "bol", 15)
                 ELSE IF found >= 3 THEN Penalize(s, "bol", 12)
                 ELSE Penalize(s, "bol", 8)
            ELSE s
  IN  IF found >= 3 /\ str_in(L_mail_of_documents, c)
      THEN Penalize(s1, "bol", 20)
      ELSE s1

PenalizeIfPositive(s, key, n) == IF s[key] > 0 THEN Penalize(s, key, n) ELSE s

\* lines 529-561: the boost of a schedule that lists other documents
listed_types_rule(s, found) ==
  IF /\ s.covering > 0
     /\ found >= 2
     /\ s.invoice > 0 \/ s.bol > 0 \/ s.packing > 0 \/ s.shipment > 0
  THEN LET s1 == Boost(s, "covering", 8)
       IN  IF found >= 3
           THEN PenalizeIfPositive(
                  PenalizeIfPositive(
                    PenalizeIfPositive(
                      PenalizeIfPositive(
                        PenalizeIfPositive(s1, "invoice", 5),
                        "bol", 8),
                      "packing", 5),
                    "shipment", 5),
                  "dhl", 5)
           ELSE PenalizeIfPositive(PenalizeIfPositive(s1, "bol", 4), "invoice", 2)
  ELSE s

\* variant: the referenced document types are not counted as indicators
found_without_references(found, references) == found

\* lines 451-457: a document that names several document types
found_with_references(found, references) ==
  IF references >= 3 THEN found + 3
  ELSE IF references >= 2 THEN found + 2
  ELSE found

\* variant: the boosts of the first two branches are swapped
covering_meta_boost_weak(s, found) ==
  IF found >= 3 THEN Boost(s, "covering", 10)
  ELSE IF found >= 2 THEN Boost(s, "covering", 15)
  ELSE IF found = 1 THEN Boost(s, "covering", 5)
  ELSE s

\* variant: the last branch is an "else"
covering_meta_boost_else(s, found) ==
  IF found >= 3 THEN Boost(s, "covering", 15)
  ELSE IF found >= 2 THEN Boost(s, "covering", 10)
  ELSE Boost(s, "covering", 5)

\* lines 459-468: the boost for the meta-document indicators found
covering_meta_boost(s, found) ==
  IF found >= 3 THEN Boost(s, "covering", 15)
  ELSE IF found >= 2 THEN Boost(s, "covering", 10)
  ELSE IF found = 1 THEN Boost(s, "covering", 5)
  ELSE s

\* variant: the first of the maximal types is returned, unique or not
classify_first_max(s, header_boost) ==
  LET scores == [i \in 1..6 |-> s[ScoreKeys[i]]]
      max_score == CHOOSE m \in Range(scores) : \A i \in 1..6 : scores[i] <= m
      max_score_types == SelectSeq(DocTypes, LAMBDA t :
                           \E i \in 1..6 : DocTypes[i] = t /\ scores[i] = max_score)
  IN  IF max_score >= 3 THEN max_score_types[1]
      ELSE IF max_score >= 2 /\ header_boost > 0 THEN max_score_types[1]
      ELSE "None"

\* variant: the general floor is 2
classify_low_floor(s, header_boost) ==
  LET scores == [i \in 1..6 |-> s[ScoreKeys[i]]]
      max_score == CHOOSE m \in Range(scores) : \A i \in 1..6 : scores[i] <= m
      max_score_types == SelectSeq(DocTypes, LAMBDA t :
                           \E i \in 1..6 : DocTypes[i] = t /\ scores[i] = max_score)
  IN  IF max_score >= 2 /\ Len(max_score_types) = 1 THEN max_score_types[1]
      ELSE "None"

\* lines 573-595: the unique maximum, if it clears its floor; "None" otherwise
classify(s, header_boost) ==
  LET scores == [i \in 1..6 |-> s[ScoreKeys[i]]]
      max_score == CHOOSE m \in Range(scores) : \A i \in 1..6 : scores[i] <= m
      max_score_types == SelectSeq(DocTypes, LAMBDA t :
                           \E i \in 1..6 : DocTypes[i] = t /\ scores[i] = max_score)
  IN  IF max_score >= 5 /\ Len(max_score_types) = 1 THEN max_score_types[1]
      ELSE IF max_score >= 3 /\ Len(max_score_types) = 1 THEN max_score_types[1]
      ELSE IF max_score >= 2 /\ Len(max_score_types) = 1 /\ header_boost > 0
      THEN max_score_types[1]
      ELSE "None"

\* lines 136-336: one point per indicator pattern found in the lowered text
score_indicators(c) ==
  [dhl |-> indicator_score(dhl_indicators, c),
   invoice |-> indicator_score(invoice_indicators, c),
   bol |-> indicator_score(bol_indicators, c),
   packing |-> indicator_score(packing_indicators, c),
   shipment |-> indicator_score(shipment_indicators, c),
   covering |-> indicator_score(covering_indicators, c)]

\* lines 268-275: a bill of lading named in a list of documents
list_context_rule(s, c) ==
  IF /\ str_in(L_bill_of_lading, c) \/ str_in(<<"konnossement">>, c)
     /\ any_in(list_context_terms, c)
  THEN Penalize(s, "bol", 3)
  ELSE s

\* lines 400-435: the meta-document indicators found
meta_indicators_found(c) ==
    (IF any_in(meta_document_terms, c) THEN 1 ELSE 0)
  + (IF str_in(L_mail_of_documents, c) THEN 1 ELSE 0)
  + (IF any_in(covering_terms, c) THEN 1 ELSE 0)

\* lines 437-449: the document types the text names
count_type_references(c) ==
    (IF str_in(L_commercial_invoice, c) THEN 1 ELSE 0)
  + (IF str_in(L_packing_list, c) THEN 1 ELSE 0)
  + (IF str_in(L_shipping_advice, c) \/ str_in(L_shipment_advice, c) THEN 1 ELSE 0)
  + (IF str_in(L_bill_of_lading, c) \/ str_in(<<"konnossement">>, c) THEN 1 ELSE 0)
  + (IF str_in(<<"draft">>, c) THEN 1 ELSE 0)

\* if cond: score += n
BoostIf(cond, s, key, n) == IF cond THEN Boost(s, key, n) ELSE s

\* lines 395-483: the boosts by what the whole text holds, in the order of the code
content_boosts(s, c, found) ==
  BoostIf(any_in(shipment_terms, c),
    BoostIf(str_in(L_shipment_advice, c) \/ str_in(L_shipping_advice, c),
      BoostIf(str_in(<<"packaging", ":">>, c) \/ str_in(Lit(<<"package", "nos">>), c),
        covering_meta_boost(
          BoostIf(str_in(L_mail_of_documents, c),
            BoostIf(str_in(L_covering_schedule, c) \/ str_in(L_schedule_of_documents, c),
              s, "covering", 10),
            "covering", 8),
          found),
        "packing", 3),
      "shipment", 3),
    "shipment", 2)

\* lines 134, 340-344: the lowered text and the lines
read_document(document_content) ==
  LET lines == split_lines(document_content)
  IN  [content_lower |-> content_lower_of(document_content),
       first_lines |-> stripped_lines(SubSeq(lines, 1, Min(HeaderLines, Len(lines)))),
       all_lines |-> stripped_lines(lines)]

\* lines 136-336
count_indicators(t) == [indicators |-> score_indicators(t.content_lower)] @@ t

\* lines 268-275 and 346-372 (the list-context rule runs right after the
\* bill-of-lading patterns are counted; it reads no other score)
header_loop(t) ==
  LET header_branches == [i \in DOMAIN t.first_lines |-> header_branch(t.first_lines[i])]
  IN  [header_branches |-> header_branches,
       header_boost |-> Cardinality({i \in DOMAIN header_branches : header_branches[i] # "none"}),
       headed |-> line_boost(list_context_rule(t.indicators, t.content_lower), header_branches)]
      @@ t

\* lines 374-483
document_boosts(t) ==
  LET body_branches == [i \in DOMAIN t.all_lines |-> body_branch(t.all_lines[i], t.first_lines)]
      references == count_type_references(t.content_lower)
      found == found_with_references(meta_indicators_found(t.content_lower), references)
  IN  [document_type_references |-> references,
       covering_indicators_found |-> found,
       boosted |-> content_boosts(line_boost(t.headed, body_branches), t.content_lower, found)]
      @@ t

\* lines 485-561
penalties(t) ==
  LET mixed == mixed_indicator_penalty(t.boosted, t.content_lower)
      penalized == bol_covering_penalty(mixed, t.content_lower, t.covering_indicators_found)
  IN  [total_indicators |-> TotalOf(t.boosted),
       mixed |-> mixed,
       penalized |-> penalized,
       scores |-> listed_types_rule(penalized, t.covering_indicators_found)]
      @@ t

\* lines 563-595
classification(t) == [result |-> classify(t.scores, t.header_boost)] @@ t

\* the run of the function: the result and the values of its variables at the end
heuristic_detect_document_type(document_content) ==
  classification(penalties(document_boosts(header_loop(count_indicators(
    read_document(document_content))))))


(***************************************************************************)
(* Documents handed to the scorer.                                         *)
(***************************************************************************)
NoScores == [dhl |-> 0, invoice |-> 0, bol |-> 0, packing |-> 0, shipment |-> 0, covering |-> 0]

NoDetectLocals ==
  [content_lower |-> <<>>, first_lines |-> <<>>, all_lines |-> <<>>,
   result |-> "None", scores |-> NoScores, header_boost |-> 0,
   header_branches |-> <<>>, covering_indicators_found |-> 0,
   document_type_references |-> 0, total_indicators |-> 0,
   indicators |-> NoScores, headed |-> NoScores, boosted |-> NoScores,
   mixed |-> NoScores, penalized |-> NoScores]

L_enclosed_documents ==
  Lit(<<"please", "find", "enclosed", "the", "following", "documents">>)

\* the lines a modelled document is made of
DetectLineSet ==
  {<<>>,
   <<"x">>,
   L_bill_of_lading,
   <<"Bill", " ", "of", " ", "Lading">>,
   L_bill_of_lading \o <<"s">>,
   <<"bill", " ", " ", "of", " ", "lading">>,
   L_packing_list,
   L_commercial_invoice,
   L_commercial_invoice \o <<",", " ">> \o L_packing_list,
   L_bill_of_lading \o <<",", " ">> \o L_covering_schedule,
   L_shipment_advice,
   L_covering_schedule,
   L_waybill,
   L_dhl,
   <<"vessel">>,
   Lit(<<"vessel", "consignee">>),
   Lit(<<"Vessel", "consignee", "carrier">>),
   <<"quantity">>,
   Lit(<<"quantity", "amount">>),
   Lit(<<"quantity", "amount", "buyer">>),
   <<"packages">>,
   <<"packaging", ":">>,
   <<"attachments">>,
   <<"draft">>,
   L_mail_of_documents,
   L_enclosed_documents}

RECURSIVE JoinLines(_)
\* "\n".join(lines)
JoinLines(lines) ==
  IF lines = <<>> THEN <<>>
  ELSE IF Len(lines) = 1 THEN lines[1]
  ELSE lines[1] \o <<"\n">> \o JoinLines(Tail(lines))

DetectArgs ==
  {[op |-> "heuristic_detect_document_type", document_content |-> JoinLines(ls)] :
     ls \in SeqsUpTo(DetectLineSet, MaxDocLines)}

InitDetect ==
  /\ pc = "call"
  /\ args \in DetectArgs
  /\ locals = NoDetectLocals
  /\ ret = "None"
  /\ exc = "none"
  /\ self = NoSelf

CallDetect ==
  /\ pc = "call"
  /\ args.op = "heuristic_detect_document_type"
  /\ LET r == heuristic_detect_document_type(args.document_content)
     IN  /\ ret' = r.result
         /\ locals' = r
  /\ pc' = "done"
  /\ UNCHANGED <<args, exc, self>>

NextDetect == CallDetect

SpecDetect == InitDetect /\ [][NextDetect]_vars

(***************************************************************************)
(* Documents with "Bill of Lading" on line 2 and nothing else a pattern    *)
(* or a phrase of the scorer matches.                                      *)
(***************************************************************************)
NeutralLines == {<<>>, <<" ">>, <<"x">>, <<"x", ".", " ", "x">>}

BolPhrases ==
  {L_bill_of_lading,
   <<"Bill", " ", "of", " ", "Lading">>,
   <<"BILL", " ", "OF", " ", "LADING">>}

BolLine2 ==
  {pre \o phrase \o post :
     pre \in {<<>>, <<" ">>, <<"x", " ">>, <<"x">>},
     phrase \in BolPhrases,
     post \in {<<>>, <<" ", "x">>, <<":">>, <<"s">>, <<" ", ".">>}}

BolArgs ==
  {[op |-> "heuristic_detect_document_type",
    document_content |-> JoinLines(<<l1, l2>> \o rest)] :
     l1 \in NeutralLines, l2 \in BolLine2, rest \in SeqsUpTo(NeutralLines, MaxTailLines)}

InitBol ==
  /\ pc = "call"
  /\ args \in BolArgs
  /\ locals = NoDetectLocals
  /\ ret = "None"
  /\ exc = "none"
  /\ self = NoSelf

SpecBol == InitBol /\ [][NextDetect]_vars

(***************************************************************************)
(* Covering letters: the four document names and the sentence "please find *)
(* enclosed the following documents", once each, in every order and on     *)
(* every split into lines, at the top of the document or below             *)
(* HeaderLines blank lines.                                                *)
(***************************************************************************)
CoverPhrases ==
  <<L_enclosed_documents, L_commercial_invoice, L_packing_list,
    L_shipment_advice, L_bill_of_lading>>

CoverOrders == {p \in [1..5 -> 1..5] : \A i, j \in 1..5 : i # j => p[i] # p[j]}

CoverSeparators == {<<" ">>, <<"\n">>}

CoverBody(p, seps) ==
  CoverPhrases[p[1]] \o seps[1] \o CoverPhrases[p[2]] \o seps[2]
    \o CoverPhrases[p[3]] \o seps[3] \o CoverPhrases[p[4]] \o seps[4]
    \o CoverPhrases[p[5]]

BlankLines(n) == [i \in 1..n |-> "\n"]

CoverArgs ==
  {[op |-> "heuristic_detect_document_type",
    document_content |-> BlankLines(pad) \o CoverBody(p, seps)] :
     p \in CoverOrders, seps \in [1..4 -> CoverSeparators], pad \in {0, HeaderLines}}

InitCover ==
  /\ pc = "call"
  /\ args \in CoverArgs
  /\ locals = NoDetectLocals
  /\ ret = "None"
  /\ exc = "none"
  /\ self = NoSelf

SpecCover == InitCover /\ [][NextDetect]_vars


(***************************************************************************)
(* Properties of _heuristic_detect_document_type.                          *)
(***************************************************************************)
DetectDone == pc = "done" /\ args.op = "heuristic_detect_document_type"

\* the final score of the i-th label of the scores dictionary
FinalScore(i) == locals.scores[ScoreKeys[i]]

MaxFinalScore == CHOOSE m \in {FinalScore(i) : i \in 1..6} : \A i \in 1..6 : FinalScore(i) <= m

MaxScoreTypes == {i \in 1..6 : FinalScore(i) = MaxFinalScore}

\* the index of the returned label (0 when None is returned)
ReturnedIdx == IF \E i \in 1..6 : DocTypes[i] = ret
               THEN CHOOSE i \in 1..6 : DocTypes[i] = ret
               ELSE 0

\* C3: a category is returned only when its final score is strictly greater
\* than every other category's final score; when two or more categories
\* share the maximum final score the result is None, whatever that score is.
C3_ReturnedIsStrictMaximum ==
  DetectDone =>
    /\ ret # "None" =>
         /\ ReturnedIdx # 0
         /\ \A j \in 1..6 : j # ReturnedIdx => FinalScore(j) < FinalScore(ReturnedIdx)
    /\ Cardinality(MaxScoreTypes) >= 2 => ret = "None"

\* two categories tie at a final maximum of 3 or more and None is returned
C3_Witness ==
  /\ DetectDone
  /\ Cardinality(MaxScoreTypes) >= 2
  /\ MaxFinalScore >= 3
  /\ ret = "None"

\* the header loop added its boost to the score of the i-th label
HeaderBoosted(i) == BranchCount(locals.header_branches, ScoreKeys[i]) > 0

\* C4: the floor is tiered.  A unique maximum of 3 or more is returned; a
\* unique maximum of 2 is returned only when the header loop boosted that
\* same category; a unique maximum below 2 (and any maximum below 2) is
\* never returned.
C4_TieredFloor ==
  DetectDone =>
    /\ (Cardinality(MaxScoreTypes) = 1 /\ MaxFinalScore >= 3) =>
         (ReturnedIdx # 0 /\ MaxScoreTypes = {ReturnedIdx})
    /\ (Cardinality(MaxScoreTypes) = 1 /\ MaxFinalScore = 2 /\ ret # "None") =>
         (ReturnedIdx # 0 /\ MaxScoreTypes = {ReturnedIdx} /\ HeaderBoosted(ReturnedIdx))
    /\ MaxFinalScore < 2 => ret = "None"

\* a unique maximum of exactly 3, with no header boost at all, is returned
C4_Witness ==
  /\ DetectDone
  /\ Cardinality(MaxScoreTypes) = 1
  /\ MaxFinalScore = 3
  /\ locals.header_boost = 0
  /\ ReturnedIdx # 0
  /\ MaxScoreTypes = {ReturnedIdx}

\* every phrase the scorer looks for with the "in" operator
CategoryPhrases ==
  list_context_terms \cup meta_document_terms \cup covering_terms \cup shipment_terms
    \cup {L_dhl, L_waybill, L_bill_of_lading, L_packing_list, L_shipment_advice,
          L_shipping_advice, L_covering_schedule, L_commercial_invoice,
          L_mail_of_documents, L_please_find_enclosed, L_schedule_of_documents,
          <<"konnossement">>, <<"draft">>, <<"packaging", ":">>,
          Lit(<<"package", "nos">>)}

\* no indicator pattern of the category with the given score key matches
NoIndicatorOf(key) == locals.indicators[key] = 0

\* line 2 of the text holds "bill of lading" (in any letter case) and only the
\* bill-of-lading patterns and that phrase match anywhere in the text
BolOnLine2Only ==
  LET lines == split_lines(args.document_content)
      c == content_lower_of(args.document_content)
  IN  /\ Len(lines) >= 2
      /\ str_in(L_bill_of_lading, content_lower_of(lines[2]))
      /\ \A key \in {"dhl", "invoice", "packing", "shipment", "covering"} : NoIndicatorOf(key)
      /\ ~any_in(CategoryPhrases \ {L_bill_of_lading}, c)

\* C7: a text with "Bill of Lading" on line 2 that matches nothing of another
\* category is detected as BILL OF LADING, the header boost is recorded, and
\* the winning score is the bill-of-lading indicator count plus that boost.
C7_BillOfLadingOnLine2 ==
  (DetectDone /\ BolOnLine2Only) =>
    /\ ret = "BILL OF LADING"
    /\ locals.header_boost = 1
    /\ BranchCount(locals.header_branches, "bol") = 1
    /\ locals.scores.bol = locals.indicators.bol + 5
    /\ MaxScoreTypes = {3}

\* "x" on line 1, "Bill of Lading" on line 2: the pattern and the header match
C7_Witness ==
  /\ DetectDone
  /\ BolOnLine2Only
  /\ args.document_content = <<"x", "\n", "Bill", " ", "of", " ", "Lading">>
  /\ ret = "BILL OF LADING"
  /\ locals.header_boost = 1
  /\ locals.scores.bol = 6

\* the text names the four enclosed documents once each, holds the sentence
\* "please find enclosed the following documents", and matches no indicator
\* pattern but the four names'
CoveringLetter ==
  LET c == content_lower_of(args.document_content)
  IN  /\ str_in(L_enclosed_documents, c)
      /\ str_in(L_commercial_invoice, c)
      /\ str_in(L_packing_list, c)
      /\ str_in(L_shipment_advice, c)
      /\ str_in(L_bill_of_lading, c)
      /\ locals.document_type_references = 4
      /\ locals.indicators.dhl = 0
      /\ locals.indicators.covering = 0

\* C8 as stated: the covering letter is detected as COVERING SCHEDULE and the
\* final bill-of-lading score is below both the final invoice score and the
\* final covering-schedule score.
C8_BolBelowInvoiceAndCovering ==
  (DetectDone /\ CoveringLetter) =>
    /\ ret = "COVERING SCHEDULE"
    /\ locals.scores.bol < locals.scores.invoice
    /\ locals.scores.bol < locals.scores.covering

\* C8 as amended: the covering letter is detected as COVERING SCHEDULE, the
\* final bill-of-lading score is below the final covering-schedule score and
\* not above the final invoice score, whichever lines the phrases are on.
C8_BolBelowCoveringNotAboveInvoice ==
  (DetectDone /\ CoveringLetter) =>
    /\ ret = "COVERING SCHEDULE"
    /\ locals.scores.bol <= locals.scores.invoice
    /\ locals.scores.bol < locals.scores.covering

\* the bill of lading has a line of its own below the header lines, its score
\* was boosted there, and the penalties bring it down to the invoice score
C8_Witness ==
  /\ DetectDone
  /\ CoveringLetter
  /\ ret = "COVERING SCHEDULE"
  /\ locals.header_boost = 0
  /\ locals.boosted.bol >= 5
  /\ locals.scores.bol = 0
  /\ locals.scores.invoice = 0
  /\ locals.scores.covering > 0

\* no indicator pattern and no phrase of the scorer matches the text
NothingMatches ==
  /\ \A key \in DOMAIN locals.indicators : NoIndicatorOf(key)
  /\ ~any_in(CategoryPhrases, content_lower_of(args.document_content))

\* C9: the scorer raises nothing and returns one of the six labels or None;
\* on a text that no indicator pattern and no category phrase matches, the
\* empty text included, every final score is 0 and the result is None.
C9_TotalAndNoneWhenNothingMatches ==
  DetectDone =>
    /\ exc = "none"
    /\ ret \in Range(DocTypes) \cup {"None"}
    /\ NothingMatches =>
         /\ \A i \in 1..6 : FinalScore(i) = 0
         /\ ret = "None"

\* a text of two lines that matches nothing
C9_Witness ==
  /\ DetectDone
  /\ NothingMatches
  /\ Len(args.document_content) >= 3
  /\ \A i \in 1..6 : FinalScore(i) = 0
  /\ ret = "None"
  /\ exc = "none"

\* the text names three or more of the tracked document types
NamesThreeTypes == locals.document_type_references >= 3

\* the covering score gains 15 or more and a positive bill-of-lading score
\* loses 12 or more (down to 0 at most)
MetaRuleBoostAndPenalty ==
  /\ locals.covering_indicators_found >= 3
  /\ locals.boosted.covering >= locals.headed.covering + 15
  /\ locals.scores.covering >= locals.mixed.covering
  /\ locals.mixed.bol > 0 => locals.scores.bol <= Max(0, locals.mixed.bol - 12)

\* C18 as stated: a text naming three or more document types gets the
\* covering score boosted by 15 or more and a positive bill-of-lading score
\* reduced by 12 or more (floored at 0), and no other score is reduced.
C18_MetaRulePenalizesBolOnly ==
  (DetectDone /\ NamesThreeTypes) =>
    /\ MetaRuleBoostAndPenalty
    /\ \A key \in {"dhl", "invoice", "packing", "shipment", "covering"} :
         locals.scores[key] >= locals.mixed[key]

\* C18 as amended: a text naming three or more document types gets the
\* covering score boosted by 15 or more and a positive bill-of-lading score
\* reduced by 12 or more (floored at 0); the invoice, packing, shipment and
\* DHL scores are reduced by 5 at most (floored at 0) and the covering score
\* is not reduced.
C18_MetaRulePenalizesBolMost ==
  (DetectDone /\ NamesThreeTypes) =>
    /\ MetaRuleBoostAndPenalty
    /\ \A key \in {"dhl", "invoice", "packing", "shipment"} :
         /\ locals.scores[key] >= Max(0, locals.mixed[key] - 5)
         /\ locals.scores[key] <= locals.mixed[key]

\* C18 witness: three names and no "please find enclosed"; the bill-of-lading
\* score goes from 6 to 0 and the packing score loses 5
C18_Witness ==
  /\ DetectDone
  /\ NamesThreeTypes
  /\ ~str_in(L_please_find_enclosed, locals.content_lower)
  /\ locals.mixed.bol >= 5
  /\ locals.scores.bol = 0
  /\ locals.mixed.packing >= 5
  /\ locals.scores.packing = locals.mixed.packing - 5
  /\ locals.boosted.covering >= locals.headed.covering + 15

\* the scores add up to more than 20 and both the invoice and the
\* bill-of-lading score are positive when the cross-type rule runs
BothFire ==
  /\ TotalOf(locals.boosted) > 20
  /\ locals.boosted.invoice > 0
  /\ locals.boosted.bol > 0

OtherFourUnchanged ==
  \A key \in {"dhl", "packing", "shipment", "covering"} :
    locals.mixed[key] = locals.boosted[key]

\* C19 as stated: above the threshold and with both scores positive, the
\* lower of the invoice and bill-of-lading scores loses 3 (floored at 0); the
\* higher one and the other four scores stay as they were.
C19_LowerDiscountedRestUnchanged ==
  (DetectDone /\ BothFire) =>
    /\ OtherFourUnchanged
    /\ locals.boosted.invoice < locals.boosted.bol =>
         /\ locals.mixed.invoice = Max(0, locals.boosted.invoice - 3)
         /\ locals.mixed.bol = locals.boosted.bol
    /\ locals.boosted.bol < locals.boosted.invoice =>
         /\ locals.mixed.bol = Max(0, locals.boosted.bol - 3)
         /\ locals.mixed.invoice = locals.boosted.invoice

\* the condition of the rule that follows in the same block, on the invoice
\* score x left by the discount
NonInvoiceDiscount(x) ==
  /\ x > 0
  /\ locals.boosted.packing > 0 \/ locals.boosted.shipment > 0 \/ locals.boosted.covering > 0
  /\ \/ str_in(L_packing_list, locals.content_lower)
     \/ str_in(L_shipment_advice, locals.content_lower)
     \/ str_in(L_covering_schedule, locals.content_lower)

\* C19 as amended: above the threshold and with both scores positive, the
\* lower of the invoice and bill-of-lading scores, the bill-of-lading score
\* when they are equal, loses 3 (floored at 0) and the other four scores stay
\* as they were; the bill-of-lading score is not changed otherwise, and the
\* invoice score left by the discount loses 2 more (floored at 0) exactly
\* when it is positive, the packing, shipment or covering score is positive
\* and the text names a packing list, shipment advice or covering schedule.
C19_LowerDiscountedThenInvoiceRule ==
  (DetectDone /\ BothFire) =>
    LET invoice_lower == locals.boosted.invoice < locals.boosted.bol
        x == IF invoice_lower THEN Max(0, locals.boosted.invoice - 3)
             ELSE locals.boosted.invoice
    IN  /\ OtherFourUnchanged
        /\ locals.mixed.bol = IF invoice_lower THEN locals.boosted.bol
                              ELSE Max(0, locals.boosted.bol - 3)
        /\ locals.mixed.invoice = IF NonInvoiceDiscount(x) THEN Max(0, x - 2) ELSE x

\* C19 witness: the invoice score is the higher one; the bill-of-lading score
\* loses 3 and the invoice score loses 2
C19_Witness ==
  /\ DetectDone
  /\ BothFire
  /\ locals.boosted.bol < locals.boosted.invoice
  /\ locals.mixed.bol = Max(0, locals.boosted.bol - 3)
  /\ locals.mixed.invoice = locals.boosted.invoice - 2
  /\ OtherFourUnchanged

\* the category-name phrases of a score
HeaderPhrases(key) ==
  CASE key = "packing" -> {L_packing_list}
    [] key = "shipment" -> {L_shipment_advice}
    [] key = "covering" -> {L_covering_schedule}
    [] key = "invoice" -> {L_commercial_invoice}
    [] key = "bol" -> {L_bill_of_lading}
    [] key = "dhl" -> {L_dhl, L_waybill}

\* the line holds a category-name phrase of the score
LineNames(line, key) == any_in(HeaderPhrases(key), line)

\* the order in which the header loop tries the categories
HeaderOrder == <<"packing", "shipment", "covering", "invoice", "bol", "dhl">>

\* the first category, in that order, whose phrase the line holds
FirstNamed(line) ==
  IF \E n \in DOMAIN HeaderOrder : LineNames(line, HeaderOrder[n])
  THEN HeaderOrder[CHOOSE n \in DOMAIN HeaderOrder :
                     /\ LineNames(line, HeaderOrder[n])
                     /\ \A m \in 1..(n - 1) : ~LineNames(line, HeaderOrder[m])]
  ELSE "none"

\* the scores when the header loop starts
ScoresBeforeHeader == list_context_rule(locals.indicators, locals.content_lower)

\* the first HeaderLines lines of the text that are not blank
FirstNonBlankLines ==
  SubSeq(locals.all_lines, 1, Min(HeaderLines, Len(locals.all_lines)))

\* C20 as stated: each of the first 15 non-blank lines adds 5 to the score of
\* every category whose name phrase it holds, and a header boost is recorded
\* exactly when there is such a line.
C20_HeaderBoostForEveryNamedCategory ==
  DetectDone =>
    /\ \A key \in DOMAIN locals.headed :
         locals.headed[key] =
           ScoresBeforeHeader[key]
             + 5 * Cardinality({i \in DOMAIN FirstNonBlankLines :
                                  LineNames(FirstNonBlankLines[i], key)})
    /\ locals.header_boost > 0 <=>
         \E i \in DOMAIN FirstNonBlankLines :
           FirstNamed(FirstNonBlankLines[i]) # "none"

\* C20 as amended: each non-blank line among the first 15 lines of the text
\* that holds a category-name phrase adds 5 to the score of one category, the
\* first of packing list, shipment advice, covering schedule, commercial
\* invoice, bill of lading, DHL/waybill whose phrase it holds, and is counted
\* as a header boost.
C20_HeaderBoostForFirstNamedCategory ==
  DetectDone =>
    /\ \A key \in DOMAIN locals.headed :
         locals.headed[key] =
           ScoresBeforeHeader[key]
             + 5 * Cardinality({i \in DOMAIN locals.first_lines :
                                  FirstNamed(locals.first_lines[i]) = key})
    /\ locals.header_boost =
         Cardinality({i \in DOMAIN locals.first_lines :
                        FirstNamed(locals.first_lines[i]) # "none"})

\* C20 witness: a header line names the commercial invoice and the packing
\* list; the packing score gains 5, the invoice score nothing
C20_Witness ==
  /\ DetectDone
  /\ \E i \in DOMAIN locals.first_lines :
       /\ LineNames(locals.first_lines[i], "invoice")
       /\ LineNames(locals.first_lines[i], "packing")
  /\ locals.headed.packing = ScoresBeforeHeader.packing + 5
  /\ locals.headed.invoice = ScoresBeforeHeader.invoice
  /\ locals.header_boost >= 2

\* C27: whenever the header loop recorded a boost the maximum final score is
\* 3 or more; so a label is returned exactly when the maximum final score is
\* unique and 3 or more, and no result is decided at a maximum of 2.
C27_HeaderBoostImpliesFloorOfThree ==
  DetectDone =>
    /\ locals.header_boost > 0 => MaxFinalScore >= 3
    /\ ret # "None" <=> (Cardinality(MaxScoreTypes) = 1 /\ MaxFinalScore >= 3)
    /\ MaxFinalScore = 2 => ret = "None"

\* C27 witness: a header line is boosted, the penalties take 5 or more from
\* the boosted score, and the maximum final score is still 3 or more
C27_Witness ==
  /\ DetectDone
  /\ locals.header_boost > 0
  /\ \E i \in 1..6 :
       /\ HeaderBoosted(i)
       /\ FinalScore(i) <= locals.boosted[ScoreKeys[i]] - 5
       /\ FinalScore(i) < 3
  /\ MaxFinalScore >= 3
  /\ ret # "None"


(***************************************************************************)
(* The LLM orchestration of RAGLLMPipeline and LLMService.  What a         *)
(* provider answers is the environment's choice: None stands for a failed  *)
(* request (no key, HTTP error, exception inside the client), a text is a  *)
(* sequence of symbols.  No text holds the symbol "None".                  *)
(***************************************************************************)
None == <<"None">>

\* Python truth of an Optional[str]
truthy(content) == content # None /\ content # <<>>

\* "content and content.strip()"
not_blank(content) == truthy(content) /\ str_strip(content) # <<>>

\* GLM_LLM_Client.get_completion: empty or blank content is answered as None
glm_client_get_completion(content) ==
  IF content = None \/ ~truthy(content) \/ str_strip(content) = <<>> THEN None ELSE content

\* RAGLLMPipeline.get_completion_with_fallback; calls lists the providers asked
get_completion_with_fallback(glm_content, groq_content) ==
  LET glm_response_content == glm_client_get_completion(glm_content)
  IN  IF not_blank(glm_response_content)
      THEN [ret |-> glm_response_content, calls |-> <<"glm">>,
            glm_response |-> glm_response_content, groq_response |-> None]
      ELSE [ret |-> IF not_blank(groq_content) THEN groq_content ELSE None,
            calls |-> <<"glm", "groq">>,
            glm_response |-> glm_response_content, groq_response |-> groq_content]

\* LLMService.get_completion_with_fallback: GLM_LLM.get_completion hands the
\* content on as it is, and the tests are "if content"
service_get_completion_with_fallback(glm_content, groq_content) ==
  IF truthy(glm_content)
  THEN [ret |-> glm_content, calls |-> <<"glm">>,
        glm_response |-> glm_content, groq_response |-> None]
  ELSE [ret |-> IF truthy(groq_content) THEN groq_content ELSE None,
        calls |-> <<"glm", "groq">>,
        glm_response |-> glm_content, groq_response |-> groq_content]

(***************************************************************************)
(* get_completion_with_fallback of both classes, on every pair of provider *)
(* answers: a failure, the empty text, blank texts and texts with content. *)
(***************************************************************************)
ProviderContents ==
  {None, <<>>, <<" ">>, <<"\n", " ">>, <<"x">>, <<" ", "x", "\n">>}

FallbackArgs ==
  {[op |-> "get_completion_with_fallback", class |-> c,
    glm_content |-> g, groq_content |-> q] :
     c \in {"RAGLLMPipeline", "LLMService"},
     g \in ProviderContents, q \in ProviderContents}

InitFallback ==
  /\ pc = "call"
  /\ args \in FallbackArgs
  /\ locals = <<>>
  /\ ret = None
  /\ exc = "none"
  /\ self = NoSelf

CallFallback ==
  /\ pc = "call"
  /\ args.op = "get_completion_with_fallback"
  /\ args.class = "RAGLLMPipeline"
  /\ LET r == get_completion_with_fallback(args.glm_content, args.groq_content)
     IN  /\ ret' = r.ret
         /\ locals' = r
  /\ pc' = "done"
  /\ UNCHANGED <<args, exc, self>>

CallServiceFallback ==
  /\ pc = "call"
  /\ args.op = "get_completion_with_fallback"
  /\ args.class = "LLMService"
  /\ LET r == service_get_completion_with_fallback(args.glm_content, args.groq_content)
     IN  /\ ret' = r.ret
         /\ locals' = r
  /\ pc' = "done"
  /\ UNCHANGED <<args, exc, self>>

NextFallback == CallFallback \/ CallServiceFallback

SpecFallback == InitFallback /\ [][NextFallback]_vars

FallbackDone == pc = "done" /\ args.op = "get_completion_with_fallback"

\* the provider's answer is None, empty or blank
NoneOrBlank(content) == content = None \/ str_strip(content) = <<>>

\* GLM is asked first and Groq only after GLM answered None or blank; the
\* result is None exactly when both answered None or blank, and otherwise it
\* is the answer, not blank, of the first provider that gave one
FallbackContract ==
  /\ locals.calls[1] = "glm"
  /\ Len(locals.calls) = 2 =>
       (locals.calls[2] = "groq" /\ NoneOrBlank(locals.glm_response))
  /\ ret = None <=>
       (NoneOrBlank(locals.glm_response) /\ Len(locals.calls) = 2
          /\ NoneOrBlank(locals.groq_response))
  /\ ret # None =>
       /\ ~NoneOrBlank(ret)
       /\ ret = IF ~NoneOrBlank(locals.glm_response) THEN locals.glm_response
                ELSE locals.groq_response

\* C25 as stated, for get_completion_with_fallback of RAGLLMPipeline and of
\* LLMService: GLM first, Groq only after a None or blank GLM answer, None
\* exactly when both answered None or blank, and a result that is not None is
\* the content, not blank, of the first provider that succeeded.
C25_FallbackOrderAndResult == FallbackDone => FallbackContract


(***************************************************************************)
(* detect_document_type.  An LLM answer is a text whose words are whole    *)
(* answers ("bill of lading", "Unknown"); the cache is a function from     *)
(* digests to labels.                                                       *)
(***************************************************************************)
SampleChars == 3        \* length of a sample (1500 in the source), scaled down

\* variant: the digest of the first symbol alone
sha256_first_symbol(document_content) ==
  <<"sha256", SubSeq(document_content, 1, Min(1, Len(document_content)))>>

\* hashlib.sha256(...).hexdigest(): one digest per content
sha256(document_content) == <<"sha256", document_content>>

\* str.upper on an answer
upper_answer(w) ==
  CASE w = "bill of lading" -> "BILL OF LADING"
    [] w = "Packing List" -> "PACKING LIST"
    [] w = "unknown" -> "UNKNOWN"
    [] w = "invoice" -> "INVOICE"
    [] OTHER -> w

\* variant: "UNKNOWN" counts as a valid type
valid_types_with_unknown ==
  {"BILL OF LADING", "COMMERCIAL INVOICE", "PACKING LIST",
   "DHL RECEIPT", "SHIPMENT ADVICE", "COVERING SCHEDULE", "UNKNOWN"}

valid_types ==
  {"BILL OF LADING", "COMMERCIAL INVOICE", "PACKING LIST",
   "DHL RECEIPT", "SHIPMENT ADVICE", "COVERING SCHEDULE"}

\* the samples cut from a document of doc_length characters
samples_of(doc_length) ==
  LET samples == (IF doc_length > SampleChars THEN <<"HEADER SAMPLE">> ELSE <<>>)
                 \o (IF doc_length > 2 * SampleChars THEN <<"MIDDLE SAMPLE">> ELSE <<>>)
                 \o (IF doc_length > SampleChars THEN <<"FOOTER SAMPLE">> ELSE <<>>)
  IN  IF samples = <<>> THEN <<"FULL DOCUMENT">> ELSE samples

\* llm_response_content.strip().upper() of an answer that is in valid_types,
\* "None" for every other outcome of the request
valid_doc_type(llm_response_content) ==
  IF ~truthy(llm_response_content) THEN "None"
  ELSE LET stripped == str_strip(llm_response_content)
           doc_type == [i \in DOMAIN stripped |-> upper_answer(stripped[i])]
       IN  IF Len(doc_type) = 1 /\ doc_type[1] \in valid_types THEN doc_type[1]
           ELSE "None"

RECURSIVE sample_loop(_, _, _)
\* the loop over the samples from sample i on: the first valid answer and
\* the number of requests made
sample_loop(samples, completions, i) ==
  IF i > Len(samples) THEN [doc_type |-> "None", requests |-> Len(samples)]
  ELSE IF valid_doc_type(completions[i]) # "None"
       THEN [doc_type |-> valid_doc_type(completions[i]), requests |-> i]
       ELSE sample_loop(samples, completions, i + 1)

\* detect_document_type on the pipeline object s; heuristic is what
\* _heuristic_detect_document_type returns for the content and completions
\* what the successive LLM requests return
detect_document_type(s, document_content, heuristic, completions) ==
  LET doc_hash == sha256(document_content)
      cache == s._doc_type_cache
      cached == IF doc_hash \in DOMAIN cache THEN cache[doc_hash] ELSE "None"
      samples == samples_of(Len(document_content))
      sampled == sample_loop(samples, completions, 1)
      final == valid_doc_type(completions[Len(samples) + 1])
      store(label) == [s EXCEPT !._doc_type_cache = (doc_hash :> label) @@ cache]
  IN  IF cached # "None"
      THEN [ret |-> cached, self |-> s,
            locals |-> [cached |-> cached, heuristic |-> "not run", requests |-> 0]]
      ELSE IF heuristic # "None"
      THEN [ret |-> heuristic, self |-> store(heuristic),
            locals |-> [cached |-> cached, heuristic |-> heuristic, requests |-> 0]]
      ELSE IF sampled.doc_type # "None"
      THEN [ret |-> sampled.doc_type, self |-> store(sampled.doc_type),
            locals |-> [cached |-> cached, heuristic |-> heuristic,
                        requests |-> sampled.requests]]
      ELSE IF final # "None"
      THEN [ret |-> final, self |-> store(final),
            locals |-> [cached |-> cached, heuristic |-> heuristic,
                        requests |-> Len(samples) + 1]]
      ELSE [ret |-> "UNKNOWN", self |-> s,
            locals |-> [cached |-> cached, heuristic |-> heuristic,
                        requests |-> Len(samples) + 1]]

(***************************************************************************)
(* One pipeline object and any sequence of detect_document_type calls on   *)
(* it: two documents the heuristic labels, three it does not (of one, two  *)
(* and three samples), and every outcome of every LLM request.             *)
(***************************************************************************)
TypeContents ==
  {<<"bill", " ", "of", " ", "lading">>,
   <<"commercial", " ", "invoice">>,
   <<"bill">>,
   <<"x", " ", "x", " ", "x">>,
   <<"x", ".", " ", "x", ".", " ", "x">>}

\* _heuristic_detect_document_type on the modelled documents
HeuristicLabels ==
  [c \in TypeContents |-> heuristic_detect_document_type(c).result]

Completions ==
  {None, <<" ", "Packing List", "\n">>, <<"unknown">>, <<"invoice">>}

\* the outcomes of the requests a call can make: none when the cache or the
\* heuristic answers
CompletionsFor(s, document_content) ==
  IF sha256(document_content) \in DOMAIN s._doc_type_cache
       \/ HeuristicLabels[document_content] # "None"
  THEN {<<>>}
  ELSE [1..(Len(samples_of(Len(document_content))) + 1) -> Completions]

InitType ==
  /\ pc = "idle"
  /\ args = NoArgs
  /\ locals = <<>>
  /\ ret = "None"
  /\ exc = "none"
  /\ self = NoSelf

CallDetectDocumentType ==
  /\ pc = "idle"
  /\ \E document_content \in TypeContents :
       \E completions \in CompletionsFor(self, document_content) :
         LET r == detect_document_type(self, document_content,
                                       HeuristicLabels[document_content], completions)
         IN  /\ args' = [op |-> "detect_document_type",
                         document_content |-> document_content,
                         completions |-> completions]
             /\ ret' = r.ret
             /\ locals' = r.locals
             /\ self' = r.self
  /\ UNCHANGED <<pc, exc>>

NextType == CallDetectDocumentType

SpecType == InitType /\ [][NextType]_vars

TypeDone == args.op = "detect_document_type"

\* the six labels
SixLabels == Range(DocTypes)

\* C22: after any earlier calls on the pipeline, when the heuristic returns a
\* label for the content, detect_document_type returns that label and makes
\* no LLM request.
C22_HeuristicLabelIsReturned ==
  (TypeDone /\ HeuristicLabels[args.document_content] # "None") =>
    /\ ret = HeuristicLabels[args.document_content]
    /\ locals.requests = 0

\* C22 witness: an LLM label is in the cache for another content, and the
\* call is answered from the cache with the label the heuristic gives
C22_Witness ==
  /\ TypeDone
  /\ args.document_content = <<"bill", " ", "of", " ", "lading">>
  /\ sha256(<<"bill">>) \in DOMAIN self._doc_type_cache
  /\ self._doc_type_cache[sha256(<<"bill">>)] = "PACKING LIST"
  /\ locals.cached = "BILL OF LADING"
  /\ ret = "BILL OF LADING"

\* every cache entry holds one of the six labels
CacheHoldsLabels ==
  \A key \in DOMAIN self._doc_type_cache : self._doc_type_cache[key] \in SixLabels

\* a step keeps the entries of the cache, and a call for a cached content
\* returns the cached label without the heuristic and without an LLM request
CacheAnswersLaterCalls ==
  /\ \A key \in DOMAIN self._doc_type_cache :
       /\ key \in DOMAIN self'._doc_type_cache
       /\ self'._doc_type_cache[key] = self._doc_type_cache[key]
  /\ \A c \in TypeContents :
       (sha256(c) \in DOMAIN self._doc_type_cache /\ args'.document_content = c) =>
         /\ ret' = self._doc_type_cache[sha256(c)]
         /\ locals'.heuristic = "not run"
         /\ locals'.requests = 0

\* C29 as stated: every cache entry holds one of the six labels, "UNKNOWN"
\* and answers outside the six labels are never stored and never returned,
\* and a call for a cached content returns the cached label without running
\* the heuristic or an LLM request.
C29_CacheAndResultHoldLabels ==
  /\ [](CacheHoldsLabels /\ (TypeDone => ret \in SixLabels))
  /\ [][CacheAnswersLaterCalls]_vars

\* C29 as amended: every cache entry holds one of the six labels; a call
\* returns one of the six labels, which is then the cached label of its
\* content, or returns "UNKNOWN" and leaves the content out of the cache; an
\* LLM answer outside the six labels is never stored or returned; and a call
\* for a cached content returns the cached label without running the
\* heuristic or an LLM request.
C29_CacheHoldsLabelsUnknownNotStored ==
  /\ [](/\ CacheHoldsLabels
        /\ TypeDone =>
             LET doc_hash == sha256(args.document_content)
             IN  /\ ret \in SixLabels \cup {"UNKNOWN"}
                 /\ ret \in SixLabels =>
                      /\ doc_hash \in DOMAIN self._doc_type_cache
                      /\ self._doc_type_cache[doc_hash] = ret
                 /\ ret = "UNKNOWN" => doc_hash \notin DOMAIN self._doc_type_cache)
  /\ [][CacheAnswersLaterCalls]_vars

\* C29 witness: the LLM answers "unknown" and "invoice" and nothing valid;
\* the call returns "UNKNOWN", the content stays out of the cache, and the
\* cache holds an LLM label of an earlier call
C29_Witness ==
  /\ TypeDone
  /\ args.document_content = <<"x", " ", "x", " ", "x">>
  /\ locals.requests = Len(samples_of(Len(args.document_content))) + 1
  /\ <<"unknown">> \in Range(args.completions)
  /\ <<"invoice">> \in Range(args.completions)
  /\ ret = "UNKNOWN"
  /\ sha256(args.document_content) \notin DOMAIN self._doc_type_cache
  /\ sha256(<<"bill">>) \in DOMAIN self._doc_type_cache


(***************************************************************************)
(* The compliance analysis: process_document_for_compliance and            *)
(* _analyze_messages_with_retry.  An LLM answer is None or a text, a       *)
(* sequence of symbols: the code fences FenceJson and Fence, the braces and *)
(* brackets, the comma, a lone quote (an unterminated string), blanks and  *)
(* newlines, and pieces of JSON text whose braces and quotes are balanced. *)
(* A parsed JSON object is a record, the JSON null is PyNone.              *)
(***************************************************************************)
shard_threshold == 8

max_shards == 4

\* max_tokens of the single call, first and second attempt
single_max_tokens == 2048

single_retry_max_tokens == 4096

\* initial_max_tokens of a shard
shard_initial_max_tokens == 1536

\* the default initial_max_tokens of _analyze_messages_with_retry
default_initial_max_tokens == 2048

\* range(2)
loop_attempts == 2

PyNone == [py |-> "None"]

\* the markdown code fences: three backticks followed by json, three backticks
FenceJson == "fence json"

Fence == "fence"

\* the items of the modelled reports
ItemF == [finding |-> <<"f">>, rule |-> <<"r">>]

ItemSpaceF == [finding |-> <<" ", "f">>, rule |-> <<"r">>]

ItemG == [finding |-> <<"g">>, rule |-> <<"r">>]

report_of(discrepancies, compliances) ==
  [compliance_report |->
     <<[document_name |-> "d", discrepancies |-> discrepancies,
        compliances |-> compliances]>>]

BodyGF == "\"compliance_report\":[{\"document_name\":\"d\",\"discrepancies\":[{\"finding\":\"g\",\"rule\":\"r\"},{\"finding\":\"f\",\"rule\":\"r\"}],\"compliances\":[{\"finding\":\"g\",\"rule\":\"r\"}]}]"

BodySpaceF == "\"compliance_report\":[{\"document_name\":\"d\",\"discrepancies\":[{\"finding\":\" f\",\"rule\":\"r\"}],\"compliances\":[{\"finding\":\"g\",\"rule\":\"r\"}]}]"

BodyEmpty == "\"compliance_report\":[]"

\* json.loads on the texts of the model: the value, or the exception raised
json_loads(text) ==
  CASE text = <<"{", BodyGF, "}">> ->
         [exc |-> "none", value |-> report_of(<<ItemG, ItemF>>, <<ItemG>>)]
    [] text = <<"{", BodySpaceF, "}">> ->
         [exc |-> "none", value |-> report_of(<<ItemSpaceF>>, <<ItemG>>)]
    [] text = <<"{", "\n", BodyEmpty, "\n", "}">> ->
         [exc |-> "none", value |-> [compliance_report |-> <<>>]]
    [] text = <<"null">> -> [exc |-> "none", value |-> PyNone]
    [] text = <<"[", "[[[...]]]", "]">> -> [exc |-> "RecursionError", value |-> PyNone]
    [] OTHER -> [exc |-> "JSONDecodeError", value |-> PyNone]

\* strip, drop a leading fence, drop a trailing fence, strip
clean_response_of(llm_response_content) ==
  LET stripped == str_strip(llm_response_content)
      opened == IF stripped # <<>> /\ stripped[1] \in {FenceJson, Fence}
                THEN Tail(stripped) ELSE stripped
      closed == IF opened # <<>> /\ opened[Len(opened)] = Fence
                THEN SubSeq(opened, 1, Len(opened) - 1) ELSE opened
  IN  str_strip(closed)

\* not clean_response.endswith('}') and not clean_response.endswith(']')
is_truncated(clean_response) ==
  clean_response = <<>> \/ clean_response[Len(clean_response)] \notin {"}", "]"}

RECURSIVE brace_scan(_, _, _, _)
\* the scan for the end of the last complete top-level object; positions
\* count from 1, so the result is the source's last_valid_pos
brace_scan(clean_response, i, brace_count, last_valid_pos) ==
  IF i > Len(clean_response) THEN last_valid_pos
  ELSE IF clean_response[i] = "{"
    THEN brace_scan(clean_response, i + 1, brace_count + 1, last_valid_pos)
  ELSE IF clean_response[i] = "}"
    THEN brace_scan(clean_response, i + 1, brace_count - 1,
                    IF brace_count - 1 = 0 THEN i ELSE last_valid_pos)
  ELSE brace_scan(clean_response, i + 1, brace_count, last_valid_pos)

\* clean_response[:last_valid_pos] when last_valid_pos > 0
cut_to_last_object(clean_response) ==
  LET last_valid_pos == brace_scan(clean_response, 1, 0, -1)
  IN  IF last_valid_pos > 0 THEN SubSeq(clean_response, 1, last_valid_pos)
      ELSE clean_response

\* line.count(sym)
str_count(line, sym) == Cardinality({i \in DOMAIN line : line[i] = sym})

\* line.rfind('"'), counted from 1 (0 when there is none)
rfind_quote(line) ==
  LET at == {i \in DOMAIN line : line[i] = "\""}
  IN  IF at = {} THEN 0 ELSE CHOOSE i \in at : \A j \in at : j <= i

\* the unterminated-string rule: cut the line after its last quote
cut_unterminated(line) ==
  LET odd == str_count(line, "\"") % 2 # 0
      ends_quote == line # <<>> /\ line[Len(line)] = "\""
      ends_quote_comma == Len(line) >= 2 /\ line[Len(line)] = ","
                          /\ line[Len(line) - 1] = "\""
      last_quote == rfind_quote(line)
  IN  IF odd /\ ~ends_quote_comma /\ ~ends_quote /\ last_quote > 1
      THEN SubSeq(line, 1, last_quote) ELSE line

ends_with_comma(line) == line # <<>> /\ line[Len(line)] = ","

\* fixed_response += '}' * open_braces when it does not end with '}'
close_braces(fixed_response) ==
  LET stripped == str_strip(fixed_response)
      open_braces == str_count(fixed_response, "{") - str_count(fixed_response, "}")
  IN  IF stripped # <<>> /\ stripped[Len(stripped)] = "}" THEN fixed_response
      ELSE fixed_response \o [i \in 1..Max(0, open_braces) |-> "}"]

\* the simple fixes of _analyze_messages_with_retry
fix_response(clean_response) ==
  LET lines == split_lines(clean_response)
      kept == SelectSeq(lines, LAMBDA line : str_strip(line) # <<>>)
      fixed_line(line) ==
        LET cut == cut_unterminated(str_strip(line))
        IN  IF ends_with_comma(cut) THEN SubSeq(cut, 1, Len(cut) - 1) ELSE cut
  IN  close_braces(JoinLines([i \in DOMAIN kept |-> fixed_line(kept[i])]))

\* lines.index(line), counted from 1 (0 stands for the ValueError)
list_index(lines, line) ==
  LET at == {i \in DOMAIN lines : lines[i] = line}
  IN  IF at = {} THEN 0 ELSE CHOOSE i \in at : \A j \in at : i <= j

starts_with_closer(line) ==
  LET stripped == str_strip(line)
  IN  stripped # <<>> /\ stripped[1] \in {"}", "]"}

\* the trailing-comma rule of the single call: the comma goes when the line
\* is the last one or a closing brace or bracket starts a later line;
\* lines.index raises ValueError for a line that strip or the cut changed
single_fix_line(lines, line) ==
  LET cut == cut_unterminated(str_strip(line))
      at == list_index(lines, cut)
  IN  IF ~ends_with_comma(cut) THEN [exc |-> "none", line |-> cut]
      ELSE IF at = 0 THEN [exc |-> "ValueError", line |-> cut]
      ELSE IF at = Len(lines)
              \/ \E j \in (at + 1)..Len(lines) : starts_with_closer(lines[j])
        THEN [exc |-> "none", line |-> SubSeq(cut, 1, Len(cut) - 1)]
      ELSE [exc |-> "none", line |-> cut]

\* the fixes of the single call
single_fix_response(clean_response) ==
  LET lines == split_lines(clean_response)
      kept == SelectSeq(lines, LAMBDA line : str_strip(line) # <<>>)
      fixed == [i \in DOMAIN kept |-> single_fix_line(lines, kept[i])]
  IN  IF \E i \in DOMAIN fixed : fixed[i].exc # "none"
      THEN [exc |-> "ValueError", text |-> <<>>]
      ELSE [exc |-> "none",
            text |-> close_braces(JoinLines([i \in DOMAIN fixed |-> fixed[i].line]))]

\* the error reports that carry an empty compliance report
error_report(message) ==
  IF message = "LLM response was not valid JSON."
  THEN [error |-> message, details |-> "Parsing failed after retries",
        compliance_report |->
          <<[document_name |-> "d", discrepancies |-> <<>>, compliances |-> <<>>]>>]
  ELSE [error |-> message,
        compliance_report |->
          <<[document_name |-> "d", discrepancies |-> <<>>, compliances |-> <<>>]>>]

\* variant: the loop goes on after a failed second attempt as well
retry_always(attempt, max_tokens, initial_max_tokens, outcome, message) ==
  [op |-> "continue", outcome |-> outcome,
   max_tokens |-> initial_max_tokens * 2, value |-> PyNone]

\* "if attempt == 0: max_tokens = initial_max_tokens * 2; continue", and the
\* error report returned by the second attempt
retry_or_report(attempt, max_tokens, initial_max_tokens, outcome, message) ==
  IF attempt = 0
  THEN [op |-> "continue", outcome |-> outcome,
        max_tokens |-> initial_max_tokens * 2, value |-> PyNone]
  ELSE [op |-> "return", outcome |-> outcome,
        max_tokens |-> max_tokens, value |-> error_report(message)]

\* lines 922-956: the simple fixes and the second json.loads
retry_fix(attempt, max_tokens, initial_max_tokens, clean_response) ==
  LET fixed == json_loads(fix_response(clean_response))
  IN  IF fixed.exc = "none"
      THEN [op |-> "return", outcome |-> "fixed",
            max_tokens |-> max_tokens, value |-> fixed.value]
      ELSE IF fixed.exc = "JSONDecodeError"
      THEN retry_or_report(attempt, max_tokens, initial_max_tokens, "unparseable",
                           "LLM response was not valid JSON.")
      ELSE retry_or_report(attempt, max_tokens, initial_max_tokens, "failed",
                           "Exception during analysis.")

\* lines 920-921: return json.loads(clean_response)
retry_parse(attempt, max_tokens, initial_max_tokens, clean_response) ==
  LET parsed == json_loads(clean_response)
  IN  IF parsed.exc = "none"
      THEN [op |-> "return", outcome |-> "parsed",
            max_tokens |-> max_tokens, value |-> parsed.value]
      ELSE IF parsed.exc = "JSONDecodeError"
      THEN retry_fix(attempt, max_tokens, initial_max_tokens, clean_response)
      ELSE retry_or_report(attempt, max_tokens, initial_max_tokens, "failed",
                           "Exception during analysis.")

\* one pass of the loop of _analyze_messages_with_retry on the answer of
\* get_completion_with_fallback
analyze_attempt(attempt, max_tokens, initial_max_tokens, llm_response_content) ==
  IF ~truthy(llm_response_content)
  THEN retry_or_report(attempt, max_tokens, initial_max_tokens, "empty",
                       "No LLM response.")
  ELSE IF is_truncated(clean_response_of(llm_response_content))
  THEN IF attempt = 0
       THEN [op |-> "continue", outcome |-> "truncated",
             max_tokens |-> initial_max_tokens * 2, value |-> PyNone]
       ELSE retry_parse(attempt, max_tokens, initial_max_tokens,
                        cut_to_last_object(clean_response_of(llm_response_content)))
  ELSE retry_parse(attempt, max_tokens, initial_max_tokens,
                   clean_response_of(llm_response_content))

single_break(outcome, max_tokens, structured_response) ==
  [op |-> "break", outcome |-> outcome, max_tokens |-> max_tokens,
   value |-> structured_response]

single_continue(outcome) ==
  [op |-> "continue", outcome |-> outcome,
   max_tokens |-> single_retry_max_tokens, value |-> PyNone]

\* lines 883-886, the report of "except Exception"
single_unexpected(max_tokens) ==
  single_break("failed", max_tokens,
               [error |-> "An unexpected error occurred during LLM invocation.",
                details |-> "exception"])

\* lines 807-865: the fixes and the second json.loads of the single call
single_fix(attempt, max_tokens, llm_response_content, clean_response) ==
  LET fixed_response == single_fix_response(clean_response)
      fixed == json_loads(fixed_response.text)
  IN  IF fixed_response.exc # "none" THEN single_unexpected(max_tokens)
      ELSE IF fixed.exc = "none" THEN single_break("fixed", max_tokens, fixed.value)
      ELSE IF fixed.exc # "JSONDecodeError" THEN single_unexpected(max_tokens)
      ELSE IF attempt = 0 THEN single_continue("unparseable")
      ELSE single_break("unparseable", max_tokens,
             [error |-> "LLM response was not valid JSON.",
              details |-> "JSON parsing failed",
              raw_response |-> llm_response_content,
              compliance_report |->
                <<[document_name |-> "d", discrepancies |-> <<>>,
                   compliances |-> <<>>]>>])

\* lines 802-805: structured_response = json.loads(clean_response); break
single_parse(attempt, max_tokens, llm_response_content, clean_response) ==
  LET parsed == json_loads(clean_response)
  IN  IF parsed.exc = "none" THEN single_break("parsed", max_tokens, parsed.value)
      ELSE IF parsed.exc = "JSONDecodeError"
      THEN single_fix(attempt, max_tokens, llm_response_content, clean_response)
      ELSE single_unexpected(max_tokens)

\* one pass of the single-call loop of process_document_for_compliance
single_attempt(attempt, max_tokens, llm_response_content) ==
  IF ~truthy(llm_response_content)
  THEN single_break("empty", max_tokens,
         [error |-> "Both GLM and Groq LLMs failed to provide a response.",
          details |-> "No LLM response content."])
  ELSE IF is_truncated(clean_response_of(llm_response_content))
  THEN IF attempt = 0 THEN single_continue("truncated")
       ELSE single_parse(attempt, max_tokens, llm_response_content,
                         cut_to_last_object(clean_response_of(llm_response_content)))
  ELSE single_parse(attempt, max_tokens, llm_response_content,
                    clean_response_of(llm_response_content))

\* math.ceil(a / b) for positive b
math_ceil_div(a, b) == (a + b - 1) \div b

RECURSIVE dedupe_rules(_, _)
\* lines 653-660: the first chunk of every stripped text, in order
dedupe_rules(relevant_rules, seen) ==
  IF relevant_rules = <<>> THEN <<>>
  ELSE IF str_strip(Head(relevant_rules)) \in seen
    THEN dedupe_rules(Tail(relevant_rules), seen)
  ELSE <<Head(relevant_rules)>>
         \o dedupe_rules(Tail(relevant_rules), seen \cup {str_strip(Head(relevant_rules))})

\* lines 699-701
rule_shards_of(deduped_rules) ==
  LET shard_count == Min(max_shards, math_ceil_div(Len(deduped_rules), 3))
      shard_size == math_ceil_div(Len(deduped_rules), shard_count)
      starts == RangeStarts(Len(deduped_rules), shard_size)
  IN  [j \in 1..Cardinality(starts) |->
         PySlice(deduped_rules, (j - 1) * shard_size, j * shard_size)]

\* dict.get(key, default)
get_or(d, key, default) == IF key \in DOMAIN d THEN d[key] ELSE default

\* isinstance(shard_result, dict)
is_dict(shard_result) == "py" \notin DOMAIN shard_result

\* lines 716-722: what one shard result adds to a merged list
report_items(shard_result, key) ==
  IF ~is_dict(shard_result) THEN <<>>
  ELSE IF get_or(shard_result, "compliance_report", <<>>) = <<>> THEN <<>>
  ELSE get_or(shard_result.compliance_report[1], key, <<>>)

\* the (finding, rule) key of dedupe
dedupe_key(item) ==
  <<str_strip(get_or(item, "finding", <<>>)), str_strip(get_or(item, "rule", <<>>))>>

RECURSIVE dedupe_from(_, _)
dedupe_from(items, seen_keys) ==
  IF items = <<>> THEN <<>>
  ELSE IF dedupe_key(Head(items)) \in seen_keys
    THEN dedupe_from(Tail(items), seen_keys)
  ELSE <<Head(items)>>
         \o dedupe_from(Tail(items), seen_keys \cup {dedupe_key(Head(items))})

\* lines 725-733
dedupe(items) == dedupe_from(items, {})

\* ord() of the characters of the modelled findings and rules
char_ord(ch) == CASE ch = " " -> 32 [] ch = "f" -> 102 [] ch = "g" -> 103
                  [] ch = "r" -> 114 [] OTHER -> 120

RECURSIVE str_less(_, _)
\* a < b on strings
str_less(a, b) ==
  IF b = <<>> THEN FALSE
  ELSE IF a = <<>> THEN TRUE
  ELSE IF char_ord(Head(a)) # char_ord(Head(b)) THEN char_ord(Head(a)) < char_ord(Head(b))
  ELSE str_less(Tail(a), Tail(b))

\* key=lambda x: (x.get('rule', ''), x.get('finding', ''))
report_key_less(x, y) ==
  \/ str_less(get_or(x, "rule", <<>>), get_or(y, "rule", <<>>))
  \/ /\ get_or(x, "rule", <<>>) = get_or(y, "rule", <<>>)
     /\ str_less(get_or(x, "finding", <<>>), get_or(y, "finding", <<>>))

RECURSIVE insert_by_report_key(_, _)
\* the place of x after the items that are not greater (the sort is stable)
insert_by_report_key(sorted, x) ==
  IF sorted = <<>> THEN <<x>>
  ELSE IF report_key_less(x, Head(sorted)) THEN <<x>> \o sorted
  ELSE <<Head(sorted)>> \o insert_by_report_key(Tail(sorted), x)

RECURSIVE sort_by_report_key(_, _)
\* lines 739-740: list.sort(key=...)
sort_by_report_key(items, sorted) ==
  IF items = <<>> THEN sorted
  ELSE sort_by_report_key(Tail(items), insert_by_report_key(sorted, Head(items)))

\* lines 735-749: the report returned by the sharded path
merged_report(merged_discrepancies, merged_compliances) ==
  report_of(sort_by_report_key(dedupe(merged_discrepancies), <<>>),
            sort_by_report_key(dedupe(merged_compliances), <<>>))

(***************************************************************************)
(* process_document_for_compliance as a state machine.  The retrieved      *)
(* chunks are the input; every completion attempt draws the answer of      *)
(* get_completion_with_fallback.  A shard is a thread of the executor:     *)
(* its attempts interleave with those of the other shards, and the main    *)
(* thread takes the finished shards in the order as_completed yields them. *)
(***************************************************************************)
ChunkNames == <<"c1", "c2", "c3", "c4", "c5", "c6", "c7", "c8", "c9", "c10">>

\* the retrieved chunks: 7, 8 and 9 distinct chunks, and 8 chunks of which
\* two have the same text
RelevantRules ==
  {[i \in 1..n |-> <<ChunkNames[i]>>] :
     n \in (shard_threshold - 1)..(shard_threshold + 1)}
    \cup {[i \in 1..shard_threshold |-> <<ChunkNames[Max(1, i - 1)]>>]}

\* the answers of get_completion_with_fallback
Responses ==
  {None,
   <<FenceJson, "\n", "{", BodyGF, "}", "\n", Fence>>,
   <<"{", BodySpaceF, "}">>,
   <<"{", BodyGF, "}", "\n", "Note">>,
   <<"{", "\"compliance_report\":[", "{", "\"finding\":", "\"", "Invoice">>,
   <<"{", "\n", " ", BodyEmpty, ",", "\n", "}">>,
   <<"{", "\"compliance_report\":", "}">>,
   <<"null">>,
   <<"[", "[[[...]]]", "]">>}

\* the answers drawn for the attempts of a shard: no content, a fenced
\* report, a plain report, and a report followed by text
ShardResponses ==
  {None,
   <<FenceJson, "\n", "{", BodyGF, "}", "\n", Fence>>,
   <<"{", BodySpaceF, "}">>,
   <<"{", BodyGF, "}", "\n", "Note">>}

\* the calls: process_document_for_compliance on retrieved chunks, and
\* _analyze_messages_with_retry on its own
AnalysisArgs ==
  {[op |-> "process_document_for_compliance", relevant_rules |-> relevant_rules,
    initial_max_tokens |-> 0] :
     relevant_rules \in RelevantRules}
    \cup {[op |-> "_analyze_messages_with_retry", relevant_rules |-> <<>>,
           initial_max_tokens |-> initial_max_tokens] :
            initial_max_tokens \in {shard_initial_max_tokens, default_initial_max_tokens}}

NoResult == [pending |-> TRUE]

\* a call of _analyze_messages_with_retry before its first attempt
NewCall(initial_max_tokens) ==
  [initial_max_tokens |-> initial_max_tokens, attempt |-> 0,
   max_tokens |-> initial_max_tokens, requests |-> <<>>,
   outcomes |-> <<>>, exit |-> "running", result |-> NoResult]

NoAnalysisLocals ==
  [deduped_rules |-> <<>>, rule_shards |-> <<>>, shards |-> <<>>,
   completed |-> <<>>, merged_discrepancies |-> <<>>, merged_compliances |-> <<>>,
   attempt |-> 0, max_tokens |-> single_max_tokens, requests |-> <<>>,
   outcomes |-> <<>>]

InitAnalysis ==
  /\ pc = "call"
  /\ args \in AnalysisArgs
  /\ locals = NoAnalysisLocals
  /\ ret = NoResult
  /\ exc = "none"
  /\ self = NoSelf

\* lines 629-714: the chunks are deduplicated; eight or more of them are
\* split into shards that are submitted to the executor
PrepareAnalysis ==
  /\ pc = "call"
  /\ args.op = "process_document_for_compliance"
  /\ LET deduped_rules == dedupe_rules(args.relevant_rules, {})
     IN  IF Len(deduped_rules) >= shard_threshold
         THEN /\ locals' = [locals EXCEPT
                   !.deduped_rules = deduped_rules,
                   !.rule_shards = rule_shards_of(deduped_rules),
                   !.shards = [j \in DOMAIN rule_shards_of(deduped_rules) |->
                                NewCall(shard_initial_max_tokens)]]
              /\ pc' = "shards"
         ELSE /\ locals' = [locals EXCEPT !.deduped_rules = deduped_rules]
              /\ pc' = "single"
  /\ UNCHANGED <<args, ret, exc, self>>

\* the state of a call after one pass of the loop; a loop that ends
\* without a return statement returns None
shard_after(shard, r) ==
  [initial_max_tokens |-> shard.initial_max_tokens,
   attempt |-> shard.attempt + 1,
   max_tokens |-> r.max_tokens,
   requests |-> Append(shard.requests, shard.max_tokens),
   outcomes |-> Append(shard.outcomes, r.outcome),
   exit |-> IF r.op = "return" THEN "return"
            ELSE IF shard.attempt + 1 < loop_attempts THEN "running"
            ELSE "loop end",
   result |-> IF r.op = "return" THEN r.value
              ELSE IF shard.attempt + 1 < loop_attempts THEN NoResult
              ELSE PyNone]

\* one completion attempt of shard j (lines 892-966)
ShardAttempt(j) ==
  /\ pc = "shards"
  /\ j \in DOMAIN locals.shards
  /\ locals.shards[j].exit = "running"
  /\ \E llm_response_content \in ShardResponses :
       locals' = [locals EXCEPT !.shards[j] =
                    shard_after(locals.shards[j],
                                analyze_attempt(locals.shards[j].attempt,
                                                locals.shards[j].max_tokens,
                                                locals.shards[j].initial_max_tokens,
                                                llm_response_content))]
  /\ UNCHANGED <<pc, args, ret, exc, self>>

\* one completion attempt of a call of _analyze_messages_with_retry on its
\* own; the first pass opens the call
AnalyzeAttempt ==
  /\ args.op = "_analyze_messages_with_retry"
  /\ pc \in {"call", "retry"}
  /\ \E llm_response_content \in Responses :
       LET call == IF pc = "call" THEN NewCall(args.initial_max_tokens)
                   ELSE locals.shards[1]
           after == shard_after(call,
                                analyze_attempt(call.attempt, call.max_tokens,
                                                call.initial_max_tokens,
                                                llm_response_content))
       IN  /\ locals' = [locals EXCEPT !.shards = <<after>>]
           /\ pc' = IF after.exit = "running" THEN "retry" ELSE "done"
           /\ ret' = IF after.exit = "running" THEN ret ELSE after.result
  /\ UNCHANGED <<args, exc, self>>

\* lines 715-749: as_completed yields the finished shard j; its report is
\* appended to the merged lists, and after the last shard the lists are
\* deduplicated, sorted and returned
CollectShard(j) ==
  /\ pc = "shards"
  /\ j \in DOMAIN locals.shards
  /\ locals.shards[j].exit # "running"
  /\ j \notin Range(locals.completed)
  /\ LET merged_discrepancies ==
           locals.merged_discrepancies
             \o report_items(locals.shards[j].result, "discrepancies")
         merged_compliances ==
           locals.merged_compliances
             \o report_items(locals.shards[j].result, "compliances")
         last == Len(locals.completed) + 1 = Len(locals.shards)
     IN  /\ locals' = [locals EXCEPT !.completed = Append(@, j),
                                     !.merged_discrepancies = merged_discrepancies,
                                     !.merged_compliances = merged_compliances]
         /\ pc' = IF last THEN "done" ELSE "shards"
         /\ ret' = IF last THEN merged_report(merged_discrepancies, merged_compliances)
                   ELSE ret
  /\ UNCHANGED <<args, exc, self>>

\* one pass of the single-call loop (lines 754-888); the loop ends at a
\* break or after its last pass, and structured_response is returned
SingleAttempt ==
  /\ pc = "single"
  /\ locals.attempt < loop_attempts
  /\ \E llm_response_content \in Responses :
       LET r == single_attempt(locals.attempt, locals.max_tokens, llm_response_content)
           ends == r.op = "break" \/ locals.attempt + 1 >= loop_attempts
       IN  /\ locals' = [locals EXCEPT
                !.attempt = @ + 1,
                !.max_tokens = r.max_tokens,
                !.requests = Append(@, locals.max_tokens),
                !.outcomes = Append(@, r.outcome)]
           /\ pc' = IF ends THEN "done" ELSE "single"
           /\ ret' = IF r.op = "break" THEN r.value
                     ELSE IF ends THEN [structured_response |-> "{}"]
                     ELSE ret
  /\ UNCHANGED <<args, exc, self>>

NextAnalysis ==
  \/ PrepareAnalysis
  \/ \E j \in 1..max_shards : ShardAttempt(j)
  \/ \E j \in 1..max_shards : CollectShard(j)
  \/ SingleAttempt
  \/ AnalyzeAttempt

SpecAnalysis == InitAnalysis /\ [][NextAnalysis]_vars

(***************************************************************************)
(* Properties of the analysis.                                             *)
(***************************************************************************)
\* the calls of _analyze_messages_with_retry of the state: the shards, or
\* the call made on its own
RetryCalls == Range(locals.shards)

RetryReasons == {"empty", "truncated", "unparseable", "failed"}

\* at most two attempts, the second with more max_tokens and only after a
\* first attempt that gave no result
TwoAttempts(requests, outcomes) ==
  /\ Len(requests) <= 2
  /\ Len(requests) = 2 =>
       /\ requests[2] > requests[1]
       /\ outcomes[1] \in RetryReasons

\* C30: _analyze_messages_with_retry and the single-call loop make at most
\* two completion attempts each, the second with a larger max_tokens and only
\* after an empty, truncated, unparseable or failed first attempt; a call of
\* _analyze_messages_with_retry that has made its second attempt has left
\* through a return statement, and none leaves by the end of its loop.
C30_RetryLoopsEndWithinTwoAttempts ==
  /\ \A call \in RetryCalls :
       /\ TwoAttempts(call.requests, call.outcomes)
       /\ call.exit # "loop end"
       /\ call.attempt = 2 => call.exit = "return"
       /\ call.exit = "return" => call.result # NoResult
  /\ TwoAttempts(locals.requests, locals.outcomes)
  /\ (pc = "single" /\ Len(locals.requests) = 1) =>
       locals.outcomes[1] \in {"truncated", "unparseable"}
  /\ (pc = "done" /\ args.op = "process_document_for_compliance") => ret # NoResult

\* C30 witness: a call of _analyze_messages_with_retry whose first answer
\* could not be parsed and whose second answer, with twice the max_tokens,
\* is the JSON null: the call returns None through its return statement
C30_Witness ==
  /\ pc = "done"
  /\ args.op = "_analyze_messages_with_retry"
  /\ args.initial_max_tokens = shard_initial_max_tokens
  /\ locals.shards[1].requests =
       <<shard_initial_max_tokens, shard_initial_max_tokens * 2>>
  /\ locals.shards[1].outcomes = <<"unparseable", "parsed">>
  /\ locals.shards[1].exit = "return"
  /\ ret = PyNone

\* every completion attempt of the call gave no content
EveryAttemptFailed ==
  /\ \A call \in RetryCalls : \A i \in DOMAIN call.outcomes : call.outcomes[i] = "empty"
  /\ \A i \in DOMAIN locals.outcomes : locals.outcomes[i] = "empty"

ProcessDone == pc = "done" /\ args.op = "process_document_for_compliance"

\* C28: when every completion attempt made during
\* process_document_for_compliance fails, the result carries an "error" key,
\* in the single call and in the sharded path.
C28_TotalFailureCarriesError ==
  (ProcessDone /\ EveryAttemptFailed) => "error" \in DOMAIN ret

CompletionOrders(n) ==
  {order \in [1..n -> 1..n] : \A i, j \in 1..n : order[i] = order[j] => i = j}

RECURSIVE items_in_order(_, _, _)
\* the merged list when the shards complete in the given order
items_in_order(shards, order, key) ==
  IF order = <<>> THEN <<>>
  ELSE report_items(shards[Head(order)].result, key)
         \o items_in_order(shards, Tail(order), key)

report_in_order(shards, order) ==
  merged_report(items_in_order(shards, order, "discrepancies"),
                items_in_order(shards, order, "compliances"))

NoSharedKey(items) ==
  \A i, j \in DOMAIN items : dedupe_key(items[i]) = dedupe_key(items[j]) => i = j

\* C24: the report of the sharded path is the same for every order in which
\* the shards complete, and no two items of a list share a (finding, rule)
\* key.
C24_MergedReportSameForEveryOrder ==
  (ProcessDone /\ locals.shards # <<>>) =>
    /\ \A order \in CompletionOrders(Len(locals.shards)) :
         report_in_order(locals.shards, order) = ret
    /\ NoSharedKey(ret.compliance_report[1].discrepancies)
    /\ NoSharedKey(ret.compliance_report[1].compliances)

(***************************************************************************)
(* Concurrent retrieval.  Two threads each make one call, of               *)
(* get_top_k_rules or of _get_top_k_rules_cached.  A call runs in three    *)
(* steps that read the arguments and the locals of its own frame; the      *)
(* steps of the two calls interleave.  Here pc, args, locals, ret and exc  *)
(* hold one value per thread.                                              *)
(***************************************************************************)
Threads == {1, 2}

\* variant: the wrapper hands the rules text over twice
cached_call_arguments_twice(doc_text, rules_text, rules_filename, k) ==
  [doc_text |-> doc_text, rule_texts |-> <<rules_text, rules_text>>,
   rule_filenames |-> <<rules_filename, rules_filename>>, k |-> k]

\* the arguments _get_top_k_rules_cached calls get_top_k_rules with
cached_call_arguments(doc_text, rules_text, rules_filename, k) ==
  [doc_text |-> doc_text, rule_texts |-> <<rules_text>>,
   rule_filenames |-> <<rules_filename>>, k |-> k]

\* the get_top_k_rules frame a call opens
frame_arguments(a) ==
  IF a.op = "_get_top_k_rules_cached"
  THEN cached_call_arguments(a.doc_text, a.rules_text, a.rules_filename, a.k)
  ELSE [doc_text |-> a.doc_text, rule_texts |-> a.rule_texts,
        rule_filenames |-> a.rule_filenames, k |-> a.k]

\* lines 66-74: all_chunks, processed_chunks, processed_doc
chunks_step(f, l) ==
  LET all_chunks == AllChunks(f.rule_texts, f.rule_filenames, 1)
  IN  [l EXCEPT !.all_chunks = all_chunks,
                !.processed_chunks =
                   [i \in DOMAIN all_chunks |-> preprocess(all_chunks[i].chunk)],
                !.processed_doc = preprocess(f.doc_text)]

\* lines 76-84: idf and the similarities, from the locals of the frame
similarities_step(l) ==
  LET idf == get_idf(Append(l.processed_chunks, l.processed_doc))
      doc_vec == get_tfidf_vector(l.processed_doc, idf)
  IN  [l EXCEPT !.idf = idf,
                !.similarity_with_index =
                   [i \in DOMAIN l.processed_chunks |->
                      [sim |-> get_cosine_similarity(
                                 doc_vec, get_tfidf_vector(l.processed_chunks[i], idf)),
                       idx |-> i - 1]]]

\* the divisions of lines 76-84 that raise
similarities_step_raises(l) ==
  LET idf == get_idf(Append(l.processed_chunks, l.processed_doc))
      doc_vec == get_tfidf_vector(l.processed_doc, idf)
  IN  \/ get_tf_raises(l.processed_doc)
      \/ \E i \in DOMAIN l.processed_chunks : get_tf_raises(l.processed_chunks[i])
      \/ \E i \in DOMAIN l.processed_chunks :
           get_cosine_similarity_raises(
             doc_vec, get_tfidf_vector(l.processed_chunks[i], idf))

\* lines 86-95: top, top_k_filenames and the returned top_k_rules
top_step(f, l) ==
  LET nlargest == heapq_nlargest(f.k, l.similarity_with_index)
      top == list_sort(nlargest, Len(nlargest))
  IN  [locals |-> [l EXCEPT !.top = top,
                            !.top_k_filenames =
                               [j \in DOMAIN top |-> l.all_chunks[top[j].idx + 1].filename]],
       ret |-> [j \in DOMAIN top |-> l.all_chunks[top[j].idx + 1].chunk]]

ThreadDocs == {<<"a">>, <<"b", " ", "a", " ", "b">>}

ThreadRules == {<<"a", " ", "b", " ", "a">>, <<"B", ".", " ", " ", "a", "\n">>}

\* the calls of a thread: the wrapper on one rules text, get_top_k_rules on
\* two rule texts and on none
ThreadCalls ==
  {[op |-> "_get_top_k_rules_cached", doc_text |-> d, rules_text |-> r,
    rules_filename |-> "f1.txt", k |-> k] :
     d \in ThreadDocs, r \in ThreadRules, k \in {1, MaxK}}
    \cup {[op |-> "get_top_k_rules", doc_text |-> d, rule_texts |-> rs,
           rule_filenames |-> SubSeq(Filenames, 1, Len(rs)), k |-> MaxK] :
            d \in ThreadDocs,
            rs \in {<<>>, <<<<"a", " ", "b", " ", "a">>, <<"B", ".", " ", " ", "a", "\n">>>>}}

InitThreads ==
  /\ pc = [t \in Threads |-> "call"]
  /\ args \in [Threads -> ThreadCalls]
  /\ locals = [t \in Threads |-> NoLocals]
  /\ ret = [t \in Threads |-> <<>>]
  /\ exc = [t \in Threads |-> "none"]
  /\ self = NoSelf

\* thread t enters get_top_k_rules: the guard, then the chunks and tokens
EnterTopK(t) ==
  /\ pc[t] = "call"
  /\ IF frame_arguments(args[t]).rule_texts = <<>>
     THEN /\ pc' = [pc EXCEPT ![t] = "done"]
          /\ UNCHANGED <<locals, exc>>
     ELSE IF \E i \in DOMAIN frame_arguments(args[t]).rule_texts :
               i \notin DOMAIN frame_arguments(args[t]).rule_filenames
     THEN /\ pc' = [pc EXCEPT ![t] = "done"]
          /\ exc' = [exc EXCEPT ![t] = "IndexError"]
          /\ UNCHANGED locals
     ELSE /\ pc' = [pc EXCEPT ![t] = "similarities"]
          /\ locals' = [locals EXCEPT ![t] = chunks_step(frame_arguments(args[t]), locals[t])]
          /\ UNCHANGED exc
  /\ UNCHANGED <<args, ret, self>>

\* thread t computes idf and the similarities of its chunks
Similarities(t) ==
  /\ pc[t] = "similarities"
  /\ IF similarities_step_raises(locals[t])
     THEN /\ pc' = [pc EXCEPT ![t] = "done"]
          /\ exc' = [exc EXCEPT ![t] = "ZeroDivisionError"]
          /\ UNCHANGED locals
     ELSE /\ pc' = [pc EXCEPT ![t] = "top"]
          /\ locals' = [locals EXCEPT ![t] = similarities_step(locals[t])]
          /\ UNCHANGED exc
  /\ UNCHANGED <<args, ret, self>>

\* thread t selects the top k chunks and returns
ReturnTopK(t) ==
  /\ pc[t] = "top"
  /\ LET r == top_step(frame_arguments(args[t]), locals[t])
     IN  /\ locals' = [locals EXCEPT ![t] = r.locals]
         /\ ret' = [ret EXCEPT ![t] = r.ret]
  /\ pc' = [pc EXCEPT ![t] = "done"]
  /\ UNCHANGED <<args, exc, self>>

NextThreads ==
  \/ \E t \in Threads : EnterTopK(t)
  \/ \E t \in Threads : Similarities(t)
  \/ \E t \in Threads : ReturnTopK(t)

SpecThreads == InitThreads /\ [][NextThreads]_vars

\* what the call of thread t returns when it runs alone
ResultAlone(t) ==
  IF args[t].op = "_get_top_k_rules_cached"
  THEN get_top_k_rules(args[t].doc_text, <<args[t].rules_text>>,
                       <<args[t].rules_filename>>, args[t].k)
  ELSE get_top_k_rules(args[t].doc_text, args[t].rule_texts,
                       args[t].rule_filenames, args[t].k)

====
